---- MODULE Spec2Model ----
(***************************************************************************)
(* The semantic-retrieval core of credit-memo: VectorDatabase              *)
(* (backend/rag_vector_db.py) and RAGRetriever (backend/rag_retrieval.py).  *)
(*                                                                         *)
(* The PostgreSQL server is modelled by its committed content (the         *)
(* memo_kb_chunks relation and its column dimension); the psycopg2         *)
(* connection by its handle state and its transaction status.  Every       *)
(* method is one action; `last` records the call just made and how it      *)
(* ended ("return" with a value, or "raise").                              *)
(***************************************************************************)
EXTENDS Integers, Sequences, FiniteSets, TLC

VARIABLES
    conn,                 \* self.conn: "none" (None), "open", "closed" (closed handle, still truthy)
    txn,                  \* transaction status of the connection: "idle", "active", "aborted"
    embedding_dimension,  \* self.embedding_dimension (0 stands for None)
    tableDim,             \* 0: memo_kb_chunks does not exist; n > 0: it exists with VECTOR(n)
    rows,                 \* committed rows of memo_kb_chunks
    clock,                \* CURRENT_TIMESTAMP, advanced by every insert_chunks call
    retriever,            \* whether a RAGRetriever has been constructed
    connected,            \* RAGRetriever.connected
    client,               \* the BedrockLLMClient: bedrock_runtime, rag_retriever, rag_enabled
    last                  \* the last call: its name, its inputs, its outcome

vars == <<conn, txn, embedding_dimension, tableDim, rows, clock, retriever, connected, client,
          last>>

(***************************************************************************)
(* Bounds of the model.                                                    *)
(***************************************************************************)
MaxRecs == 2       \* rows of a DataFrame handed to insert_chunks
MaxBatch == 2      \* largest batch_size tried
MaxInserts == 2    \* insert_chunks calls in one behaviour (caps the clock)
MaxLimit == 2      \* largest LIMIT asked of semantic_search

(***************************************************************************)
(* Values.  Floats are fixed-point integers in units of 1/Scale; NaN is a  *)
(* code outside the range of every distance and similarity.  Strings that  *)
(* are pattern-matched are sequences of one-character strings.             *)
(***************************************************************************)
Scale == 25 * 4
NaN == 10 * Scale
Null == <<"NULL">>

Min(a, b) == IF a < b THEN a ELSE b

RECURSIVE SeqsUpTo(_, _)
SeqsUpTo(S, n) ==
    IF n = 0 THEN {<<>>}
    ELSE LET shorter == SeqsUpTo(S, n - 1)
         IN  shorter \cup {Append(s, x) : s \in {t \in shorter : Len(t) = n - 1}, x \in S}

Range(s) == {s[i] : i \in 1..Len(s)}

(***************************************************************************)
(* Embedding vectors: the collection's dimension is 2 here; <<1>> is a     *)
(* vector of another dimension; <<0, 0>> is the zero vector that           *)
(* embed_query and generate_embedding return for an empty text.            *)
(***************************************************************************)
UnitVectors == {<<1, 0>>, <<0, 1>>, <<3, 4>>}
ZeroVector == <<0, 0>>
OtherDimVector == <<1>>

(***************************************************************************)
(* DataFrame rows handed to insert_chunks.  chunk_id values are codes that *)
(* keep the order of the VARCHAR values they stand for.                    *)
(***************************************************************************)
MetaA == [original_id |-> "M1", chunk_index |-> 1, title |-> "T1", borrower |-> <<"A", "b">>,
          loan_type |-> "term", score |-> 5, recommendation |-> "Approve"]
MetaB == [original_id |-> "M2", chunk_index |-> 2, title |-> "T2", borrower |-> <<"c">>,
          loan_type |-> "line", score |-> 3, recommendation |-> ""]

DfRow(id, meta, text, emb) ==
    [chunk_id |-> id, original_id |-> meta.original_id, chunk_index |-> meta.chunk_index,
     title |-> meta.title, borrower |-> meta.borrower, loan_type |-> meta.loan_type,
     chunk_text |-> text, chunk_length |-> Len(text), score |-> meta.score,
     recommendation |-> meta.recommendation, embedding |-> emb]

DfRows ==
    {DfRow(1, MetaA, <<"x">>, <<1, 0>>),
     DfRow(1, MetaB, <<"y", "z">>, <<3, 4>>),
     DfRow(2, MetaB, <<"y", "z">>, <<3, 4>>),
     DfRow(2, MetaA, <<"x">>, OtherDimVector)}

DataFrames == SeqsUpTo(DfRows, MaxRecs)
BatchSizes == {1, MaxBatch}
SetupDims == {Len(ZeroVector)}

(***************************************************************************)
(* The driver.  Every psycopg2 call on a closed handle raises              *)
(* InterfaceError, a psycopg2.Error; a statement in an aborted transaction *)
(* raises InFailedSqlTransaction until the next rollback.                  *)
(***************************************************************************)
CursorRaises == conn = "closed"
StatementBlocked == txn = "aborted"

(***************************************************************************)
(* insert_chunks: the tuple built from a DataFrame row (lines 202-214).    *)
(* A row is a record over the columns of its DataFrame.                    *)
(***************************************************************************)
\* row.get(key, 0): 0 for a column the DataFrame does not have
GetOrZero(row, key) == IF key \in DOMAIN row THEN row[key] ELSE 0

ToRecord(row) ==
    [chunk_id |-> row.chunk_id, original_id |-> row.original_id,
     chunk_index |-> GetOrZero(row, "chunk_index"), title |-> row.title,
     borrower |-> row.borrower,
     loan_type |-> row.loan_type, chunk_text |-> row.chunk_text,
     chunk_length |-> GetOrZero(row, "chunk_length"), score |-> GetOrZero(row, "score"),
     recommendation |-> row.recommendation, embedding |-> row.embedding]

\* int(x) raises ValueError on NaN, the value pandas gives a missing number
IntRaises(df) ==
    \E i \in 1..Len(df) : \E key \in {"chunk_index", "chunk_length", "score"} :
        GetOrZero(df[i], key) = NaN

Records(df) == [i \in 1..Len(df) |-> ToRecord(df[i])]

\* a plain INSERT into a relation without the UNIQUE constraint
UpsertRowNoConflict(tbl, r, t) ==
    tbl \cup {[chunk_id |-> r.chunk_id, original_id |-> r.original_id,
               chunk_index |-> r.chunk_index, title |-> r.title,
               borrower |-> r.borrower, loan_type |-> r.loan_type,
               chunk_text |-> r.chunk_text, chunk_length |-> r.chunk_length,
               score |-> r.score, recommendation |-> r.recommendation,
               embedding |-> r.embedding, created_at |-> t]}

\* DO UPDATE SET that also overwrites title
UpsertRowWithTitle(tbl, r, t) ==
    IF \E x \in tbl : x.chunk_id = r.chunk_id
    THEN {IF x.chunk_id = r.chunk_id
          THEN [x EXCEPT !.chunk_text = r.chunk_text, !.embedding = r.embedding,
                         !.title = r.title]
          ELSE x : x \in tbl}
    ELSE UpsertRowNoConflict(tbl, r, t)

(***************************************************************************)
(* One VALUES row of the INSERT ... ON CONFLICT (chunk_id) DO UPDATE SET   *)
(* chunk_text, embedding (lines 218-226) applied to table `tbl` at time t. *)
(***************************************************************************)
UpsertRow(tbl, r, t) ==
    IF \E x \in tbl : x.chunk_id = r.chunk_id
    THEN {IF x.chunk_id = r.chunk_id
          THEN [x EXCEPT !.chunk_text = r.chunk_text, !.embedding = r.embedding]
          ELSE x : x \in tbl}
    ELSE tbl \cup {[chunk_id |-> r.chunk_id, original_id |-> r.original_id,
                    chunk_index |-> r.chunk_index, title |-> r.title,
                    borrower |-> r.borrower, loan_type |-> r.loan_type,
                    chunk_text |-> r.chunk_text, chunk_length |-> r.chunk_length,
                    score |-> r.score, recommendation |-> r.recommendation,
                    embedding |-> r.embedding, created_at |-> t]}

RECURSIVE UpsertAll(_, _, _)
UpsertAll(tbl, batch, t) ==
    IF batch = <<>> THEN tbl
    ELSE UpsertAll(UpsertRow(tbl, Head(batch), t), Tail(batch), t)

(***************************************************************************)
(* Whether the statement for one batch raises a psycopg2.Error: failed     *)
(* transaction, missing relation, an embedding of another dimension than   *)
(* the column's, or two VALUES rows with the same chunk_id ("ON CONFLICT   *)
(* DO UPDATE command cannot affect row a second time").                    *)
(***************************************************************************)
BatchRaises(batch, blocked) ==
    \/ blocked
    \/ tableDim = 0
    \/ \E i \in 1..Len(batch) : Len(batch[i].embedding) # tableDim
    \/ \E i, j \in 1..Len(batch) : i < j /\ batch[i].chunk_id = batch[j].chunk_id

(***************************************************************************)
(* The batch loop (lines 228-235): from offset i, with `total` rows done   *)
(* and `n` statements executed, to the first batch that raises.            *)
(***************************************************************************)
RECURSIVE RunBatches(_, _, _, _, _, _, _)
RunBatches(tbl, records, i, batch_size, total, n, blocked) ==
    IF i >= Len(records)
    THEN [ok |-> TRUE, tbl |-> tbl, total |-> total, executed |-> n]
    ELSE LET batch == SubSeq(records, i + 1, Min(i + batch_size, Len(records)))
         IN  IF BatchRaises(batch, blocked)
             THEN [ok |-> FALSE, tbl |-> tbl, total |-> total, executed |-> n + 1]
             ELSE RunBatches(UpsertAll(tbl, batch, clock + 1), records, i + batch_size,
                             batch_size, total + Len(batch), n + 1, blocked)

(***************************************************************************)
(* pgvector's cosine distance `<=>` (line 301, line 304): 1 - cos, NaN     *)
(* when either vector has norm zero.  The vectors of the model have        *)
(* integer norms, so the fixed-point value is exact.                       *)
(***************************************************************************)
RECURSIVE Dot(_, _)
Dot(a, b) == IF a = <<>> THEN 0 ELSE Head(a) * Head(b) + Dot(Tail(a), Tail(b))

Norm(a) == CHOOSE n \in 0..Dot(a, a) : n * n = Dot(a, a)

CosineDistance(a, b) ==
    IF Norm(a) = 0 \/ Norm(b) = 0 THEN NaN
    ELSE Scale - (Scale * Dot(a, b)) \div (Norm(a) * Norm(b))

\* 1 - x in floating point
OneMinus(x) == IF x = NaN THEN NaN ELSE Scale - x

\* Python's a >= b on floats: false when either is NaN
FloatGe(a, b) == a # NaN /\ b # NaN /\ a >= b

\* PostgreSQL's ascending sort order on float8: NaN after every number
SortsBefore(a, b) == a < b

(***************************************************************************)
(* ILIKE (line 283): `%` matches any run of characters, `_` any one        *)
(* character, letters match whatever their case; NULL matches nothing.     *)
(***************************************************************************)
LowerChar(c) ==
    CASE c = "A" -> "a" [] c = "B" -> "b" [] c = "C" -> "c" [] OTHER -> c

Lower(s) == [i \in 1..Len(s) |-> LowerChar(s[i])]

RECURSIVE Like(_, _)
Like(s, p) ==
    IF p = <<>> THEN s = <<>>
    ELSE IF Head(p) = "%"
    THEN Like(s, Tail(p)) \/ (s # <<>> /\ Like(Tail(s), p))
    ELSE s # <<>> /\ (Head(p) = "_" \/ Head(p) = Head(s)) /\ Like(Tail(s), Tail(p))

ILike(s, p) == s # Null /\ Like(Lower(s), Lower(p))

(***************************************************************************)
(* The WHERE clause built at lines 275-288.  An optional filter is a       *)
(* sequence: <<>> for None (and for the empty string, which is falsy).     *)
(***************************************************************************)
WhereClause(r, score_filter, borrower_filter) ==
    /\ score_filter # <<>> => r.score = score_filter[1]
    /\ borrower_filter # <<>> => ILike(r.borrower, <<"%">> \o borrower_filter \o <<"%">>)

(***************************************************************************)
(* The SELECT list (lines 292-301) and the dict built from a fetched row   *)
(* (lines 315-325).                                                        *)
(***************************************************************************)
ResultRow(r, query_embedding) ==
    [chunk_id |-> r.chunk_id, original_id |-> r.original_id, title |-> r.title,
     borrower |-> r.borrower, loan_type |-> r.loan_type, chunk_text |-> r.chunk_text,
     score |-> r.score, recommendation |-> r.recommendation,
     similarity |-> OneMinus(CosineDistance(r.embedding, query_embedding))]

\* ORDER BY embedding <=> q DESC
OrderByLimitDesc(M, query_embedding, limit) ==
    LET k == Min(limit, Cardinality(M))
        d(r) == CosineDistance(r.embedding, query_embedding)
    IN  {s \in SeqsUpTo(M, k) :
            /\ Len(s) = k
            /\ \A i, j \in 1..k : i < j => s[i] # s[j] /\ ~SortsBefore(d(s[i]), d(s[j]))
            /\ \A r \in M \ Range(s) : \A i \in 1..k : ~SortsBefore(d(s[i]), d(r))}

(***************************************************************************)
(* ORDER BY embedding <=> q LIMIT n (lines 304-305) over the rows M that   *)
(* pass the WHERE clause: every sequence of min(n, |M|) distinct rows in   *)
(* ascending distance that leaves out no row closer than one it holds.     *)
(* Rows at equal distance come in whatever order the executor produces.    *)
(***************************************************************************)
OrderByLimit(M, query_embedding, limit) ==
    LET k == Min(limit, Cardinality(M))
        d(r) == CosineDistance(r.embedding, query_embedding)
    IN  {s \in SeqsUpTo(M, k) :
            /\ Len(s) = k
            /\ \A i, j \in 1..k : i < j => s[i] # s[j] /\ ~SortsBefore(d(s[j]), d(s[i]))
            /\ \A r \in M \ Range(s) : \A i \in 1..k : ~SortsBefore(d(r), d(s[i]))}

(***************************************************************************)
(* Whether the SELECT raises a psycopg2.Error.  The distance operator      *)
(* raises "different vector dimensions" on the first row it is applied to; *)
(* whether it is applied to rows the WHERE clause rejects depends on the   *)
(* plan (`evaluatesFiltered`).                                             *)
(***************************************************************************)
SelectRaises(query_embedding, limit, M, evaluatesFiltered) ==
    \/ StatementBlocked
    \/ tableDim = 0
    \/ limit < 0
    \/ /\ Len(query_embedding) # tableDim
       /\ (M # {} \/ (evaluatesFiltered /\ rows # {}))

\* no BedrockLLMClient yet; its fields as __init__ sets them afterwards
NoClient == [constructed |-> FALSE, bedrock_runtime |-> FALSE, rag_retriever |-> FALSE,
             rag_enabled |-> FALSE]

Init ==
    /\ conn = "none"
    /\ txn = "idle"
    /\ embedding_dimension = 0
    /\ tableDim = 0
    /\ rows = {}
    /\ clock = 0
    /\ retriever = FALSE
    /\ connected = FALSE
    /\ client = NoClient
    /\ last = [op |-> "init", outcome |-> "return"]

(***************************************************************************)
(* VectorDatabase.connect: psycopg2.connect succeeds or raises             *)
(* psycopg2.Error; on failure self.conn keeps its former value.            *)
(***************************************************************************)
connect ==
    /\ \E ok \in BOOLEAN :
         /\ conn' = IF ok THEN "open" ELSE conn
         /\ txn' = IF ok THEN "idle" ELSE txn
         /\ last' = [op |-> "connect", outcome |-> "return", ret |-> ok, connBefore |-> conn]
    /\ UNCHANGED <<embedding_dimension, tableDim, rows, clock, retriever, connected, client>>

(***************************************************************************)
(* VectorDatabase.disconnect: closes the handle and keeps it in self.conn. *)
(***************************************************************************)
disconnect ==
    /\ conn' = IF conn = "none" THEN "none" ELSE "closed"
    /\ last' = [op |-> "disconnect", outcome |-> "return", connBefore |-> conn]
    /\ UNCHANGED <<txn, embedding_dimension, tableDim, rows, clock, retriever, connected, client>>

(***************************************************************************)
(* VectorDatabase.setup_database.                                          *)
(***************************************************************************)
setup_database(embedding_dim) ==
    LET call == [op |-> "setup_database", embedding_dim |-> embedding_dim,
                 connBefore |-> conn]
    IN  IF conn = "none"
        THEN /\ last' = call @@ [outcome |-> "return", ret |-> FALSE]
             /\ UNCHANGED <<conn, txn, embedding_dimension, tableDim, rows, clock,
                            retriever, connected, client>>
        ELSE /\ embedding_dimension' = embedding_dim
             /\ IF CursorRaises
                THEN \* except: self.conn.rollback() raises on the closed handle
                     /\ last' = call @@ [outcome |-> "raise"]
                     /\ UNCHANGED <<txn, tableDim>>
                ELSE IF StatementBlocked
                THEN /\ txn' = "idle"
                     /\ last' = call @@ [outcome |-> "return", ret |-> FALSE]
                     /\ UNCHANGED tableDim
                ELSE /\ tableDim' = IF tableDim = 0 THEN embedding_dim ELSE tableDim
                     /\ txn' = "idle"
                     /\ last' = call @@ [outcome |-> "return", ret |-> TRUE]
             /\ UNCHANGED <<conn, rows, clock, retriever, connected, client>>

\* insert_chunks that commits after every batch and reports the rows persisted
InsertChunksCommitPerBatch(df, batch_size) ==
    LET call == [op |-> "insert_chunks", df |-> df, batch_size |-> batch_size,
                 connBefore |-> conn, txnBefore |-> txn]
        run == RunBatches(rows, Records(df), 0, batch_size, 0, 0, StatementBlocked)
    IN  /\ clock < MaxInserts
        /\ clock' = clock + 1
        /\ IF conn = "none"
           THEN /\ last' = call @@ [outcome |-> "return", ret |-> 0, executed |-> 0,
                                    failed |-> FALSE]
                /\ UNCHANGED <<txn, rows>>
           ELSE IF CursorRaises
           THEN \* except: self.conn.rollback() raises on the closed handle
                /\ last' = call @@ [outcome |-> "raise", executed |-> 0, failed |-> TRUE]
                /\ UNCHANGED <<txn, rows>>
           ELSE IF IntRaises(df)
           THEN \* ValueError from int(), not a psycopg2.Error: not caught
                /\ last' = call @@ [outcome |-> "raise", executed |-> 0, failed |-> TRUE]
                /\ UNCHANGED <<txn, rows>>
           ELSE IF run.ok
           THEN \* self.conn.commit()
                /\ rows' = run.tbl
                /\ txn' = "idle"
                /\ last' = call @@ [outcome |-> "return", ret |-> run.total,
                                    executed |-> run.executed, failed |-> FALSE]
           ELSE /\ rows' = run.tbl
                /\ txn' = "idle"
                /\ last' = call @@ [outcome |-> "return", ret |-> run.total,
                                    executed |-> run.executed, failed |-> TRUE]
        /\ UNCHANGED <<conn, embedding_dimension, tableDim, retriever, connected, client>>

(***************************************************************************)
(* VectorDatabase.insert_chunks.                                           *)
(***************************************************************************)
insert_chunks(df, batch_size) ==
    LET call == [op |-> "insert_chunks", df |-> df, batch_size |-> batch_size,
                 connBefore |-> conn, txnBefore |-> txn]
        run == RunBatches(rows, Records(df), 0, batch_size, 0, 0, StatementBlocked)
    IN  /\ clock < MaxInserts
        /\ clock' = clock + 1
        /\ IF conn = "none"
           THEN /\ last' = call @@ [outcome |-> "return", ret |-> 0, executed |-> 0,
                                    failed |-> FALSE]
                /\ UNCHANGED <<txn, rows>>
           ELSE IF CursorRaises
           THEN \* except: self.conn.rollback() raises on the closed handle
                /\ last' = call @@ [outcome |-> "raise", executed |-> 0, failed |-> TRUE]
                /\ UNCHANGED <<txn, rows>>
           ELSE IF IntRaises(df)
           THEN \* ValueError from int(), not a psycopg2.Error: not caught
                /\ last' = call @@ [outcome |-> "raise", executed |-> 0, failed |-> TRUE]
                /\ UNCHANGED <<txn, rows>>
           ELSE IF run.ok
           THEN \* self.conn.commit()
                /\ rows' = run.tbl
                /\ txn' = "idle"
                /\ last' = call @@ [outcome |-> "return", ret |-> run.total,
                                    executed |-> run.executed, failed |-> FALSE]
           ELSE \* except: self.conn.rollback(); return 0
                /\ rows' = rows
                /\ txn' = "idle"
                /\ last' = call @@ [outcome |-> "return", ret |-> 0,
                                    executed |-> run.executed, failed |-> TRUE]
        /\ UNCHANGED <<conn, embedding_dimension, tableDim, retriever, connected, client>>

(***************************************************************************)
(* VectorDatabase.clear_database.                                          *)
(***************************************************************************)
clear_database ==
    LET call == [op |-> "clear_database", connBefore |-> conn]
    IN  /\ IF conn = "none"
           THEN /\ last' = call @@ [outcome |-> "return", ret |-> FALSE]
                /\ UNCHANGED <<txn, rows>>
           ELSE IF CursorRaises
           THEN /\ last' = call @@ [outcome |-> "raise"]
                /\ UNCHANGED <<txn, rows>>
           ELSE IF StatementBlocked \/ tableDim = 0
           THEN /\ txn' = "idle"
                /\ last' = call @@ [outcome |-> "return", ret |-> FALSE]
                /\ UNCHANGED rows
           ELSE /\ rows' = {}
                /\ txn' = "idle"
                /\ last' = call @@ [outcome |-> "return", ret |-> TRUE]
        /\ UNCHANGED <<conn, embedding_dimension, tableDim, clock, retriever, connected, client>>

\* semantic_search without its except clause
SearchOutcomesUncaught(query_embedding, limit, score_filter, borrower_filter) ==
    LET M == {r \in rows : WhereClause(r, score_filter, borrower_filter)}
        uncaught == [outcome |-> "raise", ret |-> <<>>, error |-> TRUE]
    IN  IF conn = "none"
        THEN {[outcome |-> "return", ret |-> <<>>, error |-> FALSE, txn |-> txn]}
        ELSE IF CursorRaises
        THEN {uncaught @@ [txn |-> txn]}
        ELSE UNION {
               IF SelectRaises(query_embedding, limit, M, evaluatesFiltered)
               THEN {uncaught @@ [txn |-> "aborted"]}
               ELSE {[outcome |-> "return",
                      ret |-> [i \in 1..Len(s) |-> ResultRow(s[i], query_embedding)],
                      error |-> FALSE, txn |-> "active"] :
                        s \in OrderByLimit(M, query_embedding, limit)}
               : evaluatesFiltered \in BOOLEAN}

(***************************************************************************)
(* The body of semantic_search (lines 267-332) as the set of ways it can   *)
(* end: the list returned, whether a psycopg2.Error was caught, and the    *)
(* transaction status it leaves.  The transaction the SELECT opens is left *)
(* open; after a failed statement it is left aborted (no rollback).        *)
(***************************************************************************)
SearchOutcomes(query_embedding, limit, score_filter, borrower_filter) ==
    LET M == {r \in rows : WhereClause(r, score_filter, borrower_filter)}
        caught == [outcome |-> "return", ret |-> <<>>, error |-> TRUE]
    IN  IF conn = "none"
        THEN {[outcome |-> "return", ret |-> <<>>, error |-> FALSE, txn |-> txn]}
        ELSE IF CursorRaises
        THEN {caught @@ [txn |-> txn]}
        ELSE UNION {
               IF SelectRaises(query_embedding, limit, M, evaluatesFiltered)
               THEN {caught @@ [txn |-> "aborted"]}
               ELSE {[outcome |-> "return",
                      ret |-> [i \in 1..Len(s) |-> ResultRow(s[i], query_embedding)],
                      error |-> FALSE, txn |-> "active"] :
                        s \in OrderByLimit(M, query_embedding, limit)}
               : evaluatesFiltered \in BOOLEAN}

(***************************************************************************)
(* VectorDatabase.semantic_search.                                         *)
(***************************************************************************)
semantic_search(query_embedding, limit, score_filter, borrower_filter) ==
    /\ \E o \in SearchOutcomes(query_embedding, limit, score_filter, borrower_filter) :
         /\ txn' = o.txn
         /\ last' = [op |-> "semantic_search", query_embedding |-> query_embedding,
                     limit |-> limit, score_filter |-> score_filter,
                     borrower_filter |-> borrower_filter, connBefore |-> conn,
                     outcome |-> o.outcome, ret |-> o.ret, error |-> o.error]
    /\ UNCHANGED <<conn, embedding_dimension, tableDim, rows, clock, retriever, connected, client>>

(***************************************************************************)
(* VectorDatabase.get_statistics.  top_borrowers keeps the                 *)
(* TopBorrowersLimit most frequent borrower values (any of those tied).    *)
(***************************************************************************)
TopBorrowersLimit == 10

Statistics(top) ==
    [total_chunks |-> Cardinality(rows),
     score_distribution |->
        [sc \in {r.score : r \in rows} |-> Cardinality({r \in rows : r.score = sc})],
     top_borrowers |-> [b \in top |-> Cardinality({r \in rows : r.borrower = b})],
     embedding_dimension |-> embedding_dimension]

TopBorrowers ==
    LET groups == {r.borrower : r \in rows}
        n(b) == Cardinality({r \in rows : r.borrower = b})
    IN  {top \in SUBSET groups :
            /\ Cardinality(top) = Min(TopBorrowersLimit, Cardinality(groups))
            /\ \A b \in top, c \in groups \ top : n(b) >= n(c)}

get_statistics ==
    LET call == [op |-> "get_statistics", connBefore |-> conn, outcome |-> "return"]
    IN  /\ IF conn = "none" \/ CursorRaises
           THEN /\ last' = call @@ [ret |-> <<>>, empty |-> TRUE]
                /\ UNCHANGED txn
           ELSE IF StatementBlocked \/ tableDim = 0
           THEN /\ txn' = "aborted"
                /\ last' = call @@ [ret |-> <<>>, empty |-> TRUE]
           ELSE \E top \in TopBorrowers :
                  /\ txn' = "active"
                  /\ last' = call @@ [ret |-> Statistics(top), empty |-> FALSE]
        /\ UNCHANGED <<conn, embedding_dimension, tableDim, rows, clock, retriever, connected, client>>

(***************************************************************************)
(* RAGRetriever.__init__: a fresh VectorDatabase, whose connect() outcome  *)
(* becomes self.connected.                                                 *)
(***************************************************************************)
RAGRetriever_init ==
    /\ \E ok \in BOOLEAN :
         /\ conn' = IF ok THEN "open" ELSE "none"
         /\ connected' = ok
         /\ last' = [op |-> "RAGRetriever", outcome |-> "return", ret |-> ok]
    /\ txn' = "idle"
    /\ embedding_dimension' = 0
    /\ retriever' = TRUE
    /\ UNCHANGED <<tableDim, rows, clock, client>>

(***************************************************************************)
(* The query text of retrieve_similar_memos (lines 183-219), kept as the   *)
(* list handed to " ".join.  A ratio is <<>> when the key is missing and   *)
(* <<v>> otherwise, v in units of 1/Scale.                                 *)
(***************************************************************************)
DscrStrong == 150
DscrAdequate == 125
CurrentStrong == 200
CurrentAdequate == 150
LeverageLow == 30
LeverageModerate == 50

Truthy(x) == x # <<>> /\ x[1] # 0

DscrPhrase(dscr) ==
    IF ~Truthy(dscr) THEN <<>>
    ELSE IF dscr[1] >= DscrStrong THEN <<"strong debt service coverage">>
    ELSE IF dscr[1] >= DscrAdequate THEN <<"adequate debt service coverage">>
    ELSE <<"weak debt service coverage">>

CurrentPhrase(current_ratio) ==
    IF ~Truthy(current_ratio) THEN <<>>
    ELSE IF current_ratio[1] >= CurrentStrong THEN <<"strong liquidity">>
    ELSE IF current_ratio[1] >= CurrentAdequate THEN <<"adequate liquidity">>
    ELSE <<"liquidity concerns">>

LeveragePhrase(leverage) ==
    IF ~Truthy(leverage) THEN <<>>
    ELSE IF leverage[1] <= LeverageLow THEN <<"low leverage">>
    ELSE IF leverage[1] <= LeverageModerate THEN <<"moderate leverage">>
    ELSE <<"high leverage">>

QueryParts(ratios, borrower_info) ==
    <<IF borrower_info.industry = <<>> THEN "business" ELSE borrower_info.industry[1]>>
    \o DscrPhrase(ratios.dscr) \o CurrentPhrase(ratios.current_ratio)
    \o LeveragePhrase(ratios.leverage_ratio)

\* " ".join(query_parts) is the empty string
QueryIsEmpty(query_parts) == \A i \in 1..Len(query_parts) : query_parts[i] = "" /\ i = 1

(***************************************************************************)
(* embed_query (lines 73-77): the zero vector for an empty query, else     *)
(* whatever model.encode gives: a vector, or an exception ("raise").       *)
(***************************************************************************)
EncodeOutcomes == {[raised |-> FALSE, v |-> v] : v \in UnitVectors}
                  \cup {[raised |-> TRUE, v |-> <<>>]}

EmbedOutcomes(queryEmpty) ==
    IF queryEmpty THEN {[raised |-> FALSE, v |-> ZeroVector]} ELSE EncodeOutcomes

(***************************************************************************)
(* retrieve_context (lines 100-122) as the set of ways it can end: what it *)
(* returns, the limits it asked the store for (`asked`, one per query      *)
(* issued), the candidates the store gave, and the calls it made of        *)
(* model.encode and of semantic_search, in order (`calls`).                *)
(***************************************************************************)
Oversample == 2

\* no threshold filter
NoThresholdFilter(results, similarity_threshold) == results

ThresholdFilter(results, similarity_threshold) ==
    SelectSeq(results, LAMBDA r : FloatGe(r.similarity, similarity_threshold))

\* no truncation
NoSlice(results, limit) == results

\* results[:limit]
Slice(results, limit) ==
    IF limit >= 0 THEN SubSeq(results, 1, Min(limit, Len(results)))
    ELSE SubSeq(results, 1, Len(results) + limit)

\* the calls of model.encode that embed_query makes (line 73: none for an empty query)
EncodeCalls(queryEmpty) == IF queryEmpty THEN <<>> ELSE <<"encode">>

\* retrieve_context without the test of self.connected (lines 100-102)
RetrieveOutcomesUnguarded(queryEmpty, limit, score_filter, borrower_filter, similarity_threshold) ==
    UNION {
           IF e.raised
           THEN {[raised |-> TRUE, ret |-> <<>>, txn |-> txn, embeds |-> 1, searches |-> 0,
                  asked |-> <<>>, candidates |-> <<>>, calls |-> <<"encode">>]}
           ELSE {[raised |-> o.outcome = "raise",
                  ret |-> Slice(ThresholdFilter(o.ret, similarity_threshold), limit),
                  txn |-> o.txn, embeds |-> IF queryEmpty THEN 0 ELSE 1, searches |-> 1,
                  asked |-> <<limit * Oversample>>, candidates |-> o.ret,
                  calls |-> EncodeCalls(queryEmpty) \o <<"semantic_search">>] :
                    o \in SearchOutcomes(e.v, limit * Oversample, score_filter,
                                         borrower_filter)}
           : e \in EmbedOutcomes(queryEmpty)}

\* retrieve_context that queries the store again when nothing passes the threshold
RetrieveOutcomesRetry(queryEmpty, limit, score_filter, borrower_filter, similarity_threshold) ==
    IF ~connected
    THEN {[raised |-> FALSE, ret |-> <<>>, txn |-> txn, embeds |-> 0, searches |-> 0,
           asked |-> <<>>, candidates |-> <<>>, calls |-> <<>>]}
    ELSE UNION {
           IF e.raised
           THEN {[raised |-> TRUE, ret |-> <<>>, txn |-> txn, embeds |-> 1, searches |-> 0,
                  asked |-> <<>>, candidates |-> <<>>, calls |-> <<"encode">>]}
           ELSE {LET kept == Slice(ThresholdFilter(o.ret, similarity_threshold), limit)
                     again == kept = <<>>
                 IN  [raised |-> o.outcome = "raise", ret |-> kept,
                      txn |-> o.txn, embeds |-> IF queryEmpty THEN 0 ELSE 1,
                      searches |-> IF again THEN 2 ELSE 1,
                      asked |-> IF again THEN <<limit * Oversample, limit * Oversample>>
                                ELSE <<limit * Oversample>>,
                      candidates |-> o.ret,
                      calls |-> EncodeCalls(queryEmpty)
                                \o (IF again THEN <<"semantic_search", "semantic_search">>
                                    ELSE <<"semantic_search">>)] :
                    o \in SearchOutcomes(e.v, limit * Oversample, score_filter,
                                         borrower_filter)}
           : e \in EmbedOutcomes(queryEmpty)}

RetrieveOutcomes(queryEmpty, limit, score_filter, borrower_filter, similarity_threshold) ==
    IF ~connected
    THEN {[raised |-> FALSE, ret |-> <<>>, txn |-> txn, embeds |-> 0, searches |-> 0,
           asked |-> <<>>, candidates |-> <<>>, calls |-> <<>>]}
    ELSE UNION {
           IF e.raised
           THEN {[raised |-> TRUE, ret |-> <<>>, txn |-> txn, embeds |-> 1, searches |-> 0,
                  asked |-> <<>>, candidates |-> <<>>, calls |-> <<"encode">>]}
           ELSE {[raised |-> o.outcome = "raise",
                  ret |-> Slice(ThresholdFilter(o.ret, similarity_threshold), limit),
                  txn |-> o.txn, embeds |-> IF queryEmpty THEN 0 ELSE 1, searches |-> 1,
                  asked |-> <<limit * Oversample>>, candidates |-> o.ret,
                  calls |-> EncodeCalls(queryEmpty) \o <<"semantic_search">>] :
                    o \in SearchOutcomes(e.v, limit * Oversample, score_filter,
                                         borrower_filter)}
           : e \in EmbedOutcomes(queryEmpty)}

retrieve_context(query, limit, score_filter, borrower_filter, similarity_threshold) ==
    /\ retriever
    /\ \E o \in RetrieveOutcomes(query = "", limit, score_filter, borrower_filter,
                                 similarity_threshold) :
         /\ txn' = o.txn
         /\ last' = [op |-> "retrieve_context", query |-> query, limit |-> limit,
                     score_filter |-> score_filter, borrower_filter |-> borrower_filter,
                     similarity_threshold |-> similarity_threshold,
                     connBefore |-> conn, connectedBefore |-> connected,
                     outcome |-> IF o.raised THEN "raise" ELSE "return",
                     ret |-> o.ret, asked |-> o.asked, candidates |-> o.candidates,
                     embeds |-> o.embeds, searches |-> o.searches, calls |-> o.calls]
    /\ UNCHANGED <<conn, embedding_dimension, tableDim, rows, clock, retriever, connected, client>>

(***************************************************************************)
(* format_context_for_llm (lines 139-162): the text as its lines, each a   *)
(* tuple of a label and a value: the sentinel, or one block per chunk,     *)
(* numbered from 1.  The metadata lines and the recommendation line are    *)
(* written only with include_metadata.                                     *)
(***************************************************************************)
NoExamples == <<<<"No relevant examples found in knowledge base.">>>>

\* f"{x:.3f}": thousandths, or "nan"
Format3f(x) == IF x = NaN THEN <<"nan">> ELSE <<(x * 1000) \div Scale>>

\* ExampleBlock without the test of line 157 on the recommendation
ExampleBlockAlwaysRecommends(i, chunk, include_metadata) ==
    <<<<"--- Example", i>>>>
    \o (IF include_metadata
        THEN <<<<"Memo ID", chunk.original_id>>,
               <<"Title", chunk.title>>,
               <<"Borrower Type", chunk.borrower>>,
               <<"Loan Type", chunk.loan_type>>,
               <<"Risk Score", chunk.score>>,
               <<"Similarity", Format3f(chunk.similarity)>>>>
        ELSE <<>>)
    \o <<<<"Risk Analysis", chunk.chunk_text>>>>
    \o <<<<"Recommendation", chunk.recommendation>>>>

ExampleBlock(i, chunk, include_metadata) ==
    <<<<"--- Example", i>>>>
    \o (IF include_metadata
        THEN <<<<"Memo ID", chunk.original_id>>,
               <<"Title", chunk.title>>,
               <<"Borrower Type", chunk.borrower>>,
               <<"Loan Type", chunk.loan_type>>,
               <<"Risk Score", chunk.score>>,
               <<"Similarity", Format3f(chunk.similarity)>>>>
        ELSE <<>>)
    \o <<<<"Risk Analysis", chunk.chunk_text>>>>
    \o (IF include_metadata /\ chunk.recommendation # ""
        THEN <<<<"Recommendation", chunk.recommendation>>>>
        ELSE <<>>)

RECURSIVE ExampleBlocks(_, _, _)
ExampleBlocks(retrieved_chunks, i, include_metadata) ==
    IF i > Len(retrieved_chunks) THEN <<>>
    ELSE ExampleBlock(i, retrieved_chunks[i], include_metadata)
         \o ExampleBlocks(retrieved_chunks, i + 1, include_metadata)

format_context_for_llm(retrieved_chunks, include_metadata) ==
    IF retrieved_chunks = <<>> THEN NoExamples
    ELSE ExampleBlocks(retrieved_chunks, 1, include_metadata)

format_context_call(retrieved_chunks, include_metadata) ==
    /\ retriever
    /\ last' = [op |-> "format_context_for_llm", retrieved_chunks |-> retrieved_chunks,
                include_metadata |-> include_metadata, outcome |-> "return",
                ret |-> format_context_for_llm(retrieved_chunks, include_metadata)]
    /\ UNCHANGED <<conn, txn, embedding_dimension, tableDim, rows, clock, retriever,
                   connected, client>>

(***************************************************************************)
(* RAGRetriever.retrieve_similar_memos.                                    *)
(***************************************************************************)
ProfileThreshold == 40

retrieve_similar_memos(ratios, borrower_info, limit) ==
    /\ retriever
    /\ \E o \in RetrieveOutcomes(QueryIsEmpty(QueryParts(ratios, borrower_info)), limit,
                                 <<>>, <<>>, ProfileThreshold) :
         /\ txn' = o.txn
         /\ last' = [op |-> "retrieve_similar_memos", limit |-> limit,
                     ratios |-> ratios, borrower_info |-> borrower_info,
                     query |-> QueryParts(ratios, borrower_info),
                     connBefore |-> conn, connectedBefore |-> connected,
                     outcome |-> IF o.raised THEN "raise" ELSE "return",
                     ret |-> IF o.raised THEN <<>> ELSE format_context_for_llm(o.ret, TRUE),
                     embeds |-> o.embeds, searches |-> o.searches, calls |-> o.calls]
    /\ UNCHANGED <<conn, embedding_dimension, tableDim, rows, clock, retriever, connected, client>>

(***************************************************************************)
(* RAGRetriever.close: disconnects the store; self.connected is not reset. *)
(***************************************************************************)
close ==
    /\ retriever
    /\ conn' = IF conn = "none" THEN "none" ELSE "closed"
    /\ last' = [op |-> "close", outcome |-> "return", connBefore |-> conn]
    /\ UNCHANGED <<txn, embedding_dimension, tableDim, rows, clock, retriever, connected, client>>

(***************************************************************************)
(* RAGRetriever.get_knowledge_base_stats (lines 272-279): the status is    *)
(* decided by self.connected alone; the statistics are those of            *)
(* get_statistics, {} when the query fails.                                *)
(***************************************************************************)
get_knowledge_base_stats ==
    LET call == [op |-> "get_knowledge_base_stats", connBefore |-> conn,
                 connectedBefore |-> connected, outcome |-> "return"]
    IN  /\ retriever
        /\ IF ~connected
           THEN /\ last' = call @@ [status |-> "disconnected", stats |-> <<>>,
                                    empty |-> TRUE]
                /\ UNCHANGED txn
           ELSE IF conn = "none" \/ CursorRaises
           THEN /\ last' = call @@ [status |-> "connected", stats |-> <<>>, empty |-> TRUE]
                /\ UNCHANGED txn
           ELSE IF StatementBlocked \/ tableDim = 0
           THEN /\ txn' = "aborted"
                /\ last' = call @@ [status |-> "connected", stats |-> <<>>, empty |-> TRUE]
           ELSE \E top \in TopBorrowers :
                  /\ txn' = "active"
                  /\ last' = call @@ [status |-> "connected", stats |-> Statistics(top),
                                      empty |-> FALSE]
        /\ UNCHANGED <<conn, embedding_dimension, tableDim, rows, clock, retriever, connected, client>>

(***************************************************************************)
(* BedrockLLMClient.__init__ (bedrock_llm.py, lines 25-75).  The AWS       *)
(* credentials are configured or not; the rag_retrieval module imports or  *)
(* not (RAG_AVAILABLE); RAGRetriever() raises (`built` = "raised"), or     *)
(* returns a retriever whose store connection succeeded or failed.         *)
(***************************************************************************)
BedrockLLMClient_init(enable_rag) ==
    \E credentials, RAG_AVAILABLE \in BOOLEAN, built \in {"raised", "connected", "failed"} :
        /\ IF enable_rag /\ RAG_AVAILABLE /\ built # "raised"
           THEN \* line 67: a RAGRetriever with a VectorDatabase of its own
                /\ conn' = IF built = "connected" THEN "open" ELSE "none"
                /\ connected' = (built = "connected")
                /\ txn' = "idle"
                /\ embedding_dimension' = 0
                /\ retriever' = TRUE
                /\ client' = [constructed |-> TRUE, bedrock_runtime |-> credentials,
                              rag_retriever |-> TRUE,
                              rag_enabled |-> (built = "connected")]
           ELSE /\ client' = [constructed |-> TRUE, bedrock_runtime |-> credentials,
                              rag_retriever |-> FALSE, rag_enabled |-> FALSE]
                /\ UNCHANGED <<conn, connected, txn, embedding_dimension, retriever>>
        /\ last' = [op |-> "BedrockLLMClient", enable_rag |-> enable_rag,
                    outcome |-> "return"]
        /\ UNCHANGED <<tableDim, rows, clock>>

(***************************************************************************)
(* BedrockLLMClient.generate_credit_memo (lines 100-159).  rag_context is  *)
(* <<>> for None and <<text>> otherwise; `memo` tells whether the text     *)
(* returned is the model's or the mock memo that every Bedrock failure is  *)
(* turned into.                                                            *)
(***************************************************************************)
MemoLimit == 3

\* generate_credit_memo without the try/except of lines 106-116
GenerateCreditMemoUncaught(ratios, borrower_info, use_rag) ==
    LET call == [op |-> "generate_credit_memo", ratios |-> ratios,
                 borrower_info |-> borrower_info, use_rag |-> use_rag,
                 rag_enabled |-> client.rag_enabled,
                 rag_retriever |-> client.rag_retriever,
                 bedrock_runtime |-> client.bedrock_runtime]
    IN  /\ client.constructed
        /\ IF ~client.bedrock_runtime
           THEN \* lines 100-101
                /\ last' = call @@ [outcome |-> "return", consulted |-> FALSE,
                                    retrieval_raised |-> FALSE, rag_context |-> <<>>,
                                    prompt_built |-> FALSE, memo |-> "mock", calls |-> <<>>]
                /\ UNCHANGED txn
           ELSE \E memo \in {"llm", "mock"} :
                  IF use_rag /\ client.rag_enabled /\ client.rag_retriever
                  THEN \E o \in RetrieveOutcomes(
                                   QueryIsEmpty(QueryParts(ratios, borrower_info)),
                                   MemoLimit, <<>>, <<>>, ProfileThreshold) :
                         /\ txn' = o.txn
                         /\ last' = call @@
                              [outcome |-> IF o.raised THEN "raise" ELSE "return", consulted |-> TRUE,
                               retrieval_raised |-> o.raised,
                               rag_context |-> IF o.raised THEN <<>>
                                     ELSE <<format_context_for_llm(o.ret, TRUE)>>,
                               prompt_built |-> ~o.raised, memo |-> IF o.raised THEN "none" ELSE memo,
                               calls |-> o.calls]
                  ELSE /\ last' = call @@ [outcome |-> "return", consulted |-> FALSE,
                                           retrieval_raised |-> FALSE, rag_context |-> <<>>,
                                           prompt_built |-> TRUE, memo |-> memo,
                                           calls |-> <<>>]
                       /\ UNCHANGED txn
        /\ UNCHANGED <<conn, embedding_dimension, tableDim, rows, clock, retriever, connected,
                       client>>

generate_credit_memo(ratios, borrower_info, use_rag) ==
    LET call == [op |-> "generate_credit_memo", ratios |-> ratios,
                 borrower_info |-> borrower_info, use_rag |-> use_rag,
                 rag_enabled |-> client.rag_enabled,
                 rag_retriever |-> client.rag_retriever,
                 bedrock_runtime |-> client.bedrock_runtime]
    IN  /\ client.constructed
        /\ IF ~client.bedrock_runtime
           THEN \* lines 100-101
                /\ last' = call @@ [outcome |-> "return", consulted |-> FALSE,
                                    retrieval_raised |-> FALSE, rag_context |-> <<>>,
                                    prompt_built |-> FALSE, memo |-> "mock", calls |-> <<>>]
                /\ UNCHANGED txn
           ELSE \E memo \in {"llm", "mock"} :
                  IF use_rag /\ client.rag_enabled /\ client.rag_retriever
                  THEN \E o \in RetrieveOutcomes(
                                   QueryIsEmpty(QueryParts(ratios, borrower_info)),
                                   MemoLimit, <<>>, <<>>, ProfileThreshold) :
                         /\ txn' = o.txn
                         /\ last' = call @@
                              [outcome |-> "return", consulted |-> TRUE,
                               retrieval_raised |-> o.raised,
                               rag_context |-> IF o.raised THEN <<>>
                                     ELSE <<format_context_for_llm(o.ret, TRUE)>>,
                               prompt_built |-> TRUE, memo |-> memo,
                               calls |-> o.calls]
                  ELSE /\ last' = call @@ [outcome |-> "return", consulted |-> FALSE,
                                           retrieval_raised |-> FALSE, rag_context |-> <<>>,
                                           prompt_built |-> TRUE, memo |-> memo,
                                           calls |-> <<>>]
                       /\ UNCHANGED txn
        /\ UNCHANGED <<conn, embedding_dimension, tableDim, rows, clock, retriever, connected,
                       client>>

(***************************************************************************)
(* The life cycle of the store and of the retriever: every operation, on   *)
(* few inputs.                                                             *)
(***************************************************************************)
LifeFrames ==
    {<<DfRow(1, MetaA, <<"x">>, <<1, 0>>)>>,
     <<DfRow(1, MetaB, <<"y", "z">>, <<3, 4>>), DfRow(2, MetaB, <<"y", "z">>, <<3, 4>>)>>}
LifeQueries == {<<1, 0>>, OtherDimVector}
RatioInputs ==
    {[dscr |-> <<>>, current_ratio |-> <<>>, leverage_ratio |-> <<>>],
     [dscr |-> <<160>>, current_ratio |-> <<220>>, leverage_ratio |-> <<20>>]}
BorrowerInfos == {[industry |-> <<>>], [industry |-> <<"">>]}

Next ==
    \/ connect
    \/ disconnect
    \/ \E d \in SetupDims : setup_database(d)
    \/ \E df \in LifeFrames : insert_chunks(df, 1)
    \/ clear_database
    \/ get_statistics
    \/ \E q \in LifeQueries : semantic_search(q, MaxLimit, <<>>, <<>>)
    \/ RAGRetriever_init
    \/ \E ratios \in RatioInputs, info \in BorrowerInfos :
         retrieve_similar_memos(ratios, info, MaxLimit)
    \/ close

Spec == Init /\ [][Next]_vars

(***************************************************************************)
(* Ingestion: a connected store with its schema set up, and every          *)
(* DataFrame of up to MaxRecs rows in batches of 1 or MaxBatch.            *)
(***************************************************************************)
InitInsert ==
    /\ conn = "open"
    /\ txn = "idle"
    /\ embedding_dimension = Len(ZeroVector)
    /\ tableDim = Len(ZeroVector)
    /\ rows = {}
    /\ clock = 0
    /\ retriever = FALSE
    /\ connected = FALSE
    /\ client = NoClient
    /\ last = [op |-> "setup_database", embedding_dim |-> Len(ZeroVector),
               connBefore |-> "open", outcome |-> "return", ret |-> TRUE]

NextInsert ==
    \/ \E df \in DataFrames, bs \in BatchSizes : insert_chunks(df, bs)
    \/ clear_database

SpecInsert == InitInsert /\ [][NextInsert]_vars

(***************************************************************************)
(* Ingestion of DataFrames whose score column is absent or holds a missing *)
(* value, next to DataFrames that carry a score in every row.              *)
(***************************************************************************)
WithoutColumn(row, key) == [f \in DOMAIN row \ {key} |-> row[f]]

ScoreRows ==
    {DfRow(1, MetaA, <<"x">>, <<1, 0>>), DfRow(2, MetaB, <<"y", "z">>, <<3, 4>>),
     DfRow(3, MetaA, <<"x">>, <<0, 1>>)}

ScoreFrames ==
    LET scored == SeqsUpTo(ScoreRows, MaxRecs) \ {<<>>}
    IN  scored
        \cup {[i \in 1..Len(df) |-> WithoutColumn(df[i], "score")] : df \in scored}
        \cup {[df EXCEPT ![Len(df)].score = NaN] : df \in scored}

NextScores ==
    \/ \E df \in ScoreFrames, bs \in BatchSizes : insert_chunks(df, bs)
    \/ clear_database

SpecScores == InitInsert /\ [][NextScores]_vars

(***************************************************************************)
(* Search: a connected store with its schema set up, holding any table of  *)
(* up to three rows, searched with every query vector, limit and filter.   *)
(***************************************************************************)
MetaC == [original_id |-> "M3", chunk_index |-> 1, title |-> "T3", borrower |-> Null,
          loan_type |-> "term", score |-> 1, recommendation |-> ""]

StoredRow(id, meta, emb) == UpsertRow({}, ToRecord(DfRow(id, meta, <<"x">>, emb)), 0)

SearchTables ==
    {UNION {t1, t2, t3} :
        t1 \in {{}} \cup {StoredRow(1, MetaA, e) : e \in {<<1, 0>>, <<3, 4>>, ZeroVector}},
        t2 \in {{}} \cup {StoredRow(2, m, e) : m \in {MetaA, MetaB},
                                              e \in {<<1, 0>>, <<3, 4>>, ZeroVector}},
        t3 \in {{}, StoredRow(3, MetaC, <<1, 0>>)}}

SearchQueries == {<<1, 0>>, ZeroVector, OtherDimVector}
SearchLimits == {0 - 1} \cup 1..MaxLimit
ScoreFilters == {<<>>, <<5>>}
BorrowerFilters == {<<>>, <<"a">>, <<"_">>}

InitSearch ==
    /\ conn = "open"
    /\ txn = "idle"
    /\ embedding_dimension = Len(ZeroVector)
    /\ tableDim = Len(ZeroVector)
    /\ rows \in SearchTables
    /\ clock = 0
    /\ retriever = FALSE
    /\ connected = FALSE
    /\ client = NoClient
    /\ last = [op |-> "setup_database", embedding_dim |-> Len(ZeroVector),
               connBefore |-> "open", outcome |-> "return", ret |-> TRUE]

NextSearch ==
    \/ \E q \in SearchQueries, limit \in SearchLimits, sf \in ScoreFilters,
          bf \in BorrowerFilters : semantic_search(q, limit, sf, bf)
    \/ clear_database

SpecSearch == InitSearch /\ [][NextSearch]_vars

(***************************************************************************)
(* Retrieval: a retriever over a store that holds rows at similarity 1,    *)
(* 0.6 and 0 to the query vector <<1, 0>>; every retrieve_context call     *)
(* over the limits, thresholds and filters below, and                      *)
(* format_context_for_llm over every list of up to MaxRecs results.  The   *)
(* ratio values of ProfileRatios lie on, beside and away from the bucket   *)
(* boundaries.                                                             *)
(***************************************************************************)
RetrieveTables ==
    {{},
     StoredRow(1, MetaA, <<1, 0>>) \cup StoredRow(2, MetaB, <<3, 4>>),
     UNION {StoredRow(1, MetaA, <<1, 0>>), StoredRow(2, MetaB, <<3, 4>>),
            StoredRow(3, MetaC, <<0, 1>>)}}

RetrieveQueries == {"", "q"}
RetrieveLimits == (0 - 1)..MaxLimit
RetrieveThresholds == {60, 90}

Ratios(dscr, current_ratio, leverage_ratio) ==
    [dscr |-> dscr, current_ratio |-> current_ratio, leverage_ratio |-> leverage_ratio]

DscrValues == {<<>>, <<0>>, <<DscrAdequate - 1>>, <<DscrAdequate>>, <<DscrStrong - 1>>,
               <<DscrStrong>>, <<160>>}
CurrentValues == {<<>>, <<0>>, <<CurrentAdequate - 1>>, <<CurrentAdequate>>,
                  <<CurrentStrong - 1>>, <<CurrentStrong>>, <<220>>}
LeverageValues == {<<>>, <<0>>, <<20>>, <<LeverageLow>>, <<LeverageLow + 1>>,
                   <<LeverageModerate>>, <<LeverageModerate + 1>>}

\* one ratio over its values with the others missing; 1.6 / 2.2 / 0.2; all 0
ProfileRatios ==
    {Ratios(d, <<>>, <<>>) : d \in DscrValues}
    \cup {Ratios(<<>>, c, <<>>) : c \in CurrentValues}
    \cup {Ratios(<<>>, <<>>, l) : l \in LeverageValues}
    \cup {Ratios(<<160>>, <<220>>, <<20>>), Ratios(<<0>>, <<0>>, <<0>>)}

ProfileInfos == {[industry |-> <<>>], [industry |-> <<"Retail Bakery">>]}

FormatChunks ==
    SeqsUpTo({ResultRow(r, <<1, 0>>) : r \in StoredRow(1, MetaA, <<1, 0>>)
                                           \cup StoredRow(2, MetaB, <<3, 4>>)}
             \cup {ResultRow(r, ZeroVector) : r \in StoredRow(1, MetaA, <<1, 0>>)},
             MaxRecs)

InitRetrieve ==
    /\ conn = "open"
    /\ txn = "idle"
    /\ embedding_dimension = 0
    /\ tableDim = Len(ZeroVector)
    /\ rows \in RetrieveTables
    /\ clock = 0
    /\ retriever = TRUE
    /\ connected = TRUE
    /\ client = NoClient
    /\ last = [op |-> "RAGRetriever", outcome |-> "return", ret |-> TRUE]

NextRetrieve ==
    \/ \E query \in RetrieveQueries, limit \in RetrieveLimits, sf \in ScoreFilters,
          t \in RetrieveThresholds :
         retrieve_context(query, limit, sf, <<>>, t)
    \/ \E chunks \in FormatChunks, include_metadata \in BOOLEAN :
         format_context_call(chunks, include_metadata)
    \/ RAGRetriever_init

SpecRetrieve == InitRetrieve /\ [][NextRetrieve]_vars

(***************************************************************************)
(* The financial profile query: retrieve_similar_memos over ProfileRatios  *)
(* and ProfileInfos, on a retriever whose store is connected or not.       *)
(***************************************************************************)
InitProfile ==
    /\ conn = "open"
    /\ txn = "idle"
    /\ embedding_dimension = 0
    /\ tableDim = Len(ZeroVector)
    /\ rows \in {{}, StoredRow(1, MetaA, <<1, 0>>) \cup StoredRow(2, MetaB, <<3, 4>>)}
    /\ clock = 0
    /\ retriever = TRUE
    /\ connected = TRUE
    /\ client = NoClient
    /\ last = [op |-> "RAGRetriever", outcome |-> "return", ret |-> TRUE]

NextProfile ==
    \/ \E ratios \in ProfileRatios, info \in ProfileInfos :
         retrieve_similar_memos(ratios, info, 1)
    \/ RAGRetriever_init

SpecProfile == InitProfile /\ [][NextProfile]_vars

(***************************************************************************)
(* load_knowledge_base_from_csv (lines 406-474): a VectorDatabase of its   *)
(* own, connected, set up, loaded in one insert_chunks call with the       *)
(* default batch size, asked for its statistics and disconnected.  `calls` *)
(* lists the methods called on it, in order; `dbconn` is its connection    *)
(* when the function ends.  The server may refuse the connection, and may  *)
(* refuse CREATE EXTENSION, which makes setup_database return False.  The  *)
(* DataFrames of the model fit in one batch.                               *)
(***************************************************************************)
\* the statement of the only batch raises a psycopg2.Error (cf. BatchRaises)
LoadRaises(records, dim) ==
    \/ \E i \in 1..Len(records) : Len(records[i].embedding) # dim
    \/ \E i, j \in 1..Len(records) : i < j /\ records[i].chunk_id = records[j].chunk_id

\* the loader returning at line 460 without the disconnect of line 459
LoadWithoutDisconnectOnZero(df, embedding_dim) ==
    LET call == [op |-> "load_knowledge_base_from_csv", df |-> df,
                 embedding_dim |-> embedding_dim]
        dim == IF tableDim = 0 THEN embedding_dim ELSE tableDim
    IN  /\ clock < MaxInserts
        /\ \E connectOk, extensionOk \in BOOLEAN :
             IF ~connectOk
             THEN \* line 445-446
                  /\ last' = call @@ [outcome |-> "return", ret |-> FALSE,
                                      calls |-> <<"connect">>, dbconn |-> "none",
                                      connect_ret |-> FALSE, setup_ret |-> FALSE,
                                      inserted |-> 0, total_chunks |-> 0]
                  /\ UNCHANGED <<tableDim, rows, clock>>
             ELSE IF ~extensionOk
             THEN \* lines 450-452
                  /\ last' = call @@ [outcome |-> "return", ret |-> FALSE,
                                      calls |-> <<"connect", "setup_database", "disconnect">>,
                                      dbconn |-> "closed",
                                      connect_ret |-> TRUE, setup_ret |-> FALSE,
                                      inserted |-> 0, total_chunks |-> 0]
                  /\ UNCHANGED <<tableDim, rows, clock>>
             ELSE /\ tableDim' = dim
                  /\ clock' = clock + 1
                  /\ IF IntRaises(df)
                     THEN \* ValueError leaves insert_chunks and the loader
                          /\ last' = call @@ [outcome |-> "raise", ret |-> FALSE,
                                              calls |-> <<"connect", "setup_database",
                                                          "insert_chunks">>,
                                              dbconn |-> "open",
                                              connect_ret |-> TRUE, setup_ret |-> TRUE,
                                              inserted |-> 0, total_chunks |-> 0]
                          /\ UNCHANGED rows
                     ELSE IF df = <<>> \/ LoadRaises(Records(df), dim)
                     THEN \* lines 458-460
                          /\ last' = call @@ [outcome |-> "return", ret |-> FALSE,
                                              calls |-> <<"connect", "setup_database", "insert_chunks">>,
                                              dbconn |-> "open",
                                              connect_ret |-> TRUE, setup_ret |-> TRUE,
                                              inserted |-> 0, total_chunks |-> 0]
                          /\ UNCHANGED rows
                     ELSE \* lines 464-474
                          /\ rows' = UpsertAll(rows, Records(df), clock + 1)
                          /\ last' = call @@ [outcome |-> "return", ret |-> TRUE,
                                              calls |-> <<"connect", "setup_database",
                                                          "insert_chunks", "get_statistics",
                                                          "disconnect">>,
                                              dbconn |-> "closed",
                                              connect_ret |-> TRUE, setup_ret |-> TRUE,
                                              inserted |-> Len(df),
                                              total_chunks |-> Cardinality(rows')]
        /\ UNCHANGED <<conn, txn, embedding_dimension, retriever, connected, client>>

load_knowledge_base_from_csv(df, embedding_dim) ==
    LET call == [op |-> "load_knowledge_base_from_csv", df |-> df,
                 embedding_dim |-> embedding_dim]
        dim == IF tableDim = 0 THEN embedding_dim ELSE tableDim
    IN  /\ clock < MaxInserts
        /\ \E connectOk, extensionOk \in BOOLEAN :
             IF ~connectOk
             THEN \* line 445-446
                  /\ last' = call @@ [outcome |-> "return", ret |-> FALSE,
                                      calls |-> <<"connect">>, dbconn |-> "none",
                                      connect_ret |-> FALSE, setup_ret |-> FALSE,
                                      inserted |-> 0, total_chunks |-> 0]
                  /\ UNCHANGED <<tableDim, rows, clock>>
             ELSE IF ~extensionOk
             THEN \* lines 450-452
                  /\ last' = call @@ [outcome |-> "return", ret |-> FALSE,
                                      calls |-> <<"connect", "setup_database", "disconnect">>,
                                      dbconn |-> "closed",
                                      connect_ret |-> TRUE, setup_ret |-> FALSE,
                                      inserted |-> 0, total_chunks |-> 0]
                  /\ UNCHANGED <<tableDim, rows, clock>>
             ELSE /\ tableDim' = dim
                  /\ clock' = clock + 1
                  /\ IF IntRaises(df)
                     THEN \* ValueError leaves insert_chunks and the loader
                          /\ last' = call @@ [outcome |-> "raise", ret |-> FALSE,
                                              calls |-> <<"connect", "setup_database",
                                                          "insert_chunks">>,
                                              dbconn |-> "open",
                                              connect_ret |-> TRUE, setup_ret |-> TRUE,
                                              inserted |-> 0, total_chunks |-> 0]
                          /\ UNCHANGED rows
                     ELSE IF df = <<>> \/ LoadRaises(Records(df), dim)
                     THEN \* lines 458-460
                          /\ last' = call @@ [outcome |-> "return", ret |-> FALSE,
                                              calls |-> <<"connect", "setup_database", "insert_chunks", "disconnect">>,
                                              dbconn |-> "closed",
                                              connect_ret |-> TRUE, setup_ret |-> TRUE,
                                              inserted |-> 0, total_chunks |-> 0]
                          /\ UNCHANGED rows
                     ELSE \* lines 464-474
                          /\ rows' = UpsertAll(rows, Records(df), clock + 1)
                          /\ last' = call @@ [outcome |-> "return", ret |-> TRUE,
                                              calls |-> <<"connect", "setup_database",
                                                          "insert_chunks", "get_statistics",
                                                          "disconnect">>,
                                              dbconn |-> "closed",
                                              connect_ret |-> TRUE, setup_ret |-> TRUE,
                                              inserted |-> Len(df),
                                              total_chunks |-> Cardinality(rows')]
        /\ UNCHANGED <<conn, txn, embedding_dimension, retriever, connected, client>>

\* an empty file, well-formed files, a file with a chunk_id twice, a file with
\* an embedding of another dimension, a file with a missing score
LoadFrames ==
    {<<>>,
     <<DfRow(1, MetaA, <<"x">>, <<1, 0>>)>>,
     <<DfRow(1, MetaA, <<"x">>, <<1, 0>>), DfRow(2, MetaB, <<"y", "z">>, <<3, 4>>)>>,
     <<DfRow(1, MetaA, <<"x">>, <<1, 0>>), DfRow(1, MetaB, <<"y", "z">>, <<3, 4>>)>>,
     <<DfRow(2, MetaA, <<"x">>, OtherDimVector)>>,
     <<[DfRow(1, MetaA, <<"x">>, <<1, 0>>) EXCEPT !.score = NaN]>>}

InitLoad ==
    /\ conn = "none"
    /\ txn = "idle"
    /\ embedding_dimension = 0
    /\ tableDim \in {0, Len(ZeroVector)}
    /\ rows \in IF tableDim = 0 THEN {{}} ELSE {{}, StoredRow(1, MetaB, <<3, 4>>)}
    /\ clock = 0
    /\ retriever = FALSE
    /\ connected = FALSE
    /\ client = NoClient
    /\ last = [op |-> "init", outcome |-> "return"]

NextLoad ==
    \E df \in LoadFrames, embedding_dim \in {Len(OtherDimVector), Len(ZeroVector)} :
        load_knowledge_base_from_csv(df, embedding_dim)

SpecLoad == InitLoad /\ [][NextLoad]_vars

(***************************************************************************)
(* Memo generation: clients constructed with and without RAG, against a    *)
(* store that is reachable or not, then memo requests, and close() of the  *)
(* retriever.                                                              *)
(***************************************************************************)
MemoRatios == {[dscr |-> <<>>, current_ratio |-> <<>>, leverage_ratio |-> <<>>],
               [dscr |-> <<160>>, current_ratio |-> <<220>>, leverage_ratio |-> <<20>>]}
MemoInfos == {[industry |-> <<>>], [industry |-> <<"">>]}

InitMemo ==
    /\ conn = "none"
    /\ txn = "idle"
    /\ embedding_dimension = 0
    /\ tableDim = Len(ZeroVector)
    /\ rows \in {{}, StoredRow(1, MetaA, <<1, 0>>) \cup StoredRow(2, MetaB, <<3, 4>>)}
    /\ clock = 0
    /\ retriever = FALSE
    /\ connected = FALSE
    /\ client = NoClient
    /\ last = [op |-> "init", outcome |-> "return"]

NextMemo ==
    \/ \E enable_rag \in BOOLEAN : BedrockLLMClient_init(enable_rag)
    \/ \E ratios \in MemoRatios, info \in MemoInfos, use_rag \in BOOLEAN :
         generate_credit_memo(ratios, info, use_rag)
    \/ close

SpecMemo == InitMemo /\ [][NextMemo]_vars

(***************************************************************************)
(* A retriever session: construction against a store that is reachable or  *)
(* not, then retrievals, statistics and close() in any order.              *)
(***************************************************************************)
SessionQueries == {"", "q"}
SessionRatios == {Ratios(<<>>, <<>>, <<>>), Ratios(<<160>>, <<220>>, <<20>>)}
SessionInfos == {[industry |-> <<>>], [industry |-> <<"">>]}

InitSession ==
    /\ conn = "none"
    /\ txn = "idle"
    /\ embedding_dimension = 0
    /\ tableDim \in {0, Len(ZeroVector)}
    /\ rows \in IF tableDim = 0 THEN {{}}
                ELSE {{}, StoredRow(1, MetaA, <<1, 0>>) \cup StoredRow(2, MetaB, <<3, 4>>)}
    /\ clock = 0
    /\ retriever = FALSE
    /\ connected = FALSE
    /\ client = NoClient
    /\ last = [op |-> "init", outcome |-> "return"]

NextSession ==
    \/ RAGRetriever_init
    \/ \E query \in SessionQueries, t \in RetrieveThresholds :
         retrieve_context(query, 1, <<>>, <<>>, t)
    \/ \E ratios \in SessionRatios, info \in SessionInfos :
         retrieve_similar_memos(ratios, info, 1)
    \/ get_knowledge_base_stats
    \/ close

SpecSession == InitSession /\ [][NextSession]_vars

(***************************************************************************)
(* TextChunker.  A text is a sequence of one-character strings; " " is the *)
(* only whitespace character of the texts considered.                      *)
(***************************************************************************)
MaxTextLen == 7
MaxChunkLen == 6

Chars == {"a", ".", " "}

\* text.split('. '): separators are found from the left and do not overlap
RECURSIVE SplitAcc(_, _)
SplitAcc(text, piece) ==
    IF text = <<>> THEN <<piece>>
    ELSE IF Len(text) >= 2 /\ text[1] = "." /\ text[2] = " "
    THEN <<piece>> \o SplitAcc(SubSeq(text, 3, Len(text)), <<>>)
    ELSE SplitAcc(Tail(text), Append(piece, Head(text)))

Split(text) == SplitAcc(text, <<>>)

\* str.strip()
RECURSIVE Strip(_)
Strip(s) ==
    IF s = <<>> THEN s
    ELSE IF Head(s) = " " THEN Strip(Tail(s))
    ELSE IF s[Len(s)] = " " THEN Strip(SubSeq(s, 1, Len(s) - 1))
    ELSE s

\* lines 38-39: the period is added back unless the sentence ends with one
AddPeriod(sentence) ==
    IF sentence # <<>> /\ sentence[Len(sentence)] = "." THEN sentence
    ELSE Append(sentence, ".")

\* line 42, with <= in place of <
FitsInclusive(current, sentence, max_length) ==
    Len(current) + Len(sentence) <= max_length

\* line 42
\* the test of line 42 on the buffer without its trailing space
FitsWithoutSeparator(current, sentence, max_length) ==
    Len(Strip(current)) + Len(sentence) < max_length

Fits(current, sentence, max_length) == Len(current) + Len(sentence) < max_length

\* lines 46-47 and 51-52
Flush(chunks, current) == IF current # <<>> THEN Append(chunks, Strip(current)) ELSE chunks

\* the loop without the flush of lines 51-52
RECURSIVE ChunkLoopNoFinalFlush(_, _, _, _, _)
ChunkLoopNoFinalFlush(sentences, i, current, chunks, max_length) ==
    IF i > Len(sentences) THEN chunks
    ELSE LET sentence == AddPeriod(sentences[i])
         IN  IF Fits(current, sentence, max_length)
             THEN ChunkLoopNoFinalFlush(sentences, i + 1, current \o sentence \o <<" ">>,
                                        chunks, max_length)
             ELSE ChunkLoopNoFinalFlush(sentences, i + 1, sentence \o <<" ">>,
                                        Flush(chunks, current), max_length)

\* lines 36-54
RECURSIVE ChunkLoop(_, _, _, _, _)
ChunkLoop(sentences, i, current, chunks, max_length) ==
    IF i > Len(sentences) THEN Flush(chunks, current)
    ELSE LET sentence == AddPeriod(sentences[i])
         IN  IF Fits(current, sentence, max_length)
             THEN ChunkLoop(sentences, i + 1, current \o sentence \o <<" ">>, chunks,
                            max_length)
             ELSE ChunkLoop(sentences, i + 1, sentence \o <<" ">>, Flush(chunks, current),
                            max_length)

\* chunk_text without the early return of lines 28-29
ChunkTextAlwaysSplit(text, max_length) == ChunkLoop(Split(text), 1, <<>>, <<>>, max_length)

\* TextChunker.chunk_text
chunk_text(text, max_length) ==
    IF text = <<>> \/ Len(text) <= max_length
    THEN (IF text # <<>> THEN <<text>> ELSE <<>>)
    ELSE ChunkLoop(Split(text), 1, <<>>, <<>>, max_length)

(***************************************************************************)
(* TextChunker.chunk_dataframe.  A source row has the id, the text and a   *)
(* title; ids and chunk_ids are strings, kept as character sequences, and  *)
(* f"{id}-{idx+1}" is their concatenation with the decimal index.          *)
(***************************************************************************)
Digits == <<"0", "1", "2", "3", "4", "5", "6", "7", "8", "9">>

\* str(n) for a natural number n
RECURSIVE Str(_)
Str(n) == IF n < 10 THEN <<Digits[n + 1]>> ELSE Str(n \div 10) \o <<Digits[(n % 10) + 1]>>

\* a record whose chunk_id leaves out the source id
ChunkRecordIndexOnly(row, idx, chunk, additional_columns) ==
    [chunk_id |-> <<"-">> \o Str(idx + 1), original_id |-> row.id,
     chunk_index |-> idx + 1, chunk_text |-> chunk, chunk_length |-> Len(chunk)]
    @@ [col \in additional_columns \cap DOMAIN row |-> row[col]]

\* lines 84-96
ChunkRecord(row, idx, chunk, additional_columns) ==
    [chunk_id |-> row.id \o <<"-">> \o Str(idx + 1), original_id |-> row.id,
     chunk_index |-> idx + 1, chunk_text |-> chunk, chunk_length |-> Len(chunk)]
    @@ [col \in additional_columns \cap DOMAIN row |-> row[col]]

RowRecords(row, max_length, additional_columns) ==
    LET chunks == chunk_text(row.text, max_length)
    IN  [k \in 1..Len(chunks) |-> ChunkRecord(row, k - 1, chunks[k], additional_columns)]

RECURSIVE chunk_dataframe(_, _, _)
chunk_dataframe(df, max_length, additional_columns) ==
    IF df = <<>> THEN <<>>
    ELSE RowRecords(Head(df), max_length, additional_columns)
         \o chunk_dataframe(Tail(df), max_length, additional_columns)

(***************************************************************************)
(* EmbeddingGenerator.  `enc` is what model.encode gives for each text, in *)
(* the single and in the batch form alike; a missing text is Null.         *)
(***************************************************************************)
generate_embedding(text, enc) ==
    IF text = <<>> \/ text = Null THEN ZeroVector ELSE enc[text]

generate_embeddings_batch(texts, enc) ==
    IF texts = <<>> THEN <<>> ELSE [i \in 1..Len(texts) |-> enc[texts[i]]]

\* df[text_column].fillna('')
FillNa(texts) == [i \in 1..Len(texts) |-> IF texts[i] = Null THEN <<>> ELSE texts[i]]

add_embeddings_to_dataframe(texts, enc) == generate_embeddings_batch(FillNa(texts), enc)

(***************************************************************************)
(* The calls of the chunker and of the embedding generator: the arguments  *)
(* are drawn in the initial state and one step applies the function.       *)
(***************************************************************************)
RECURSIVE TextsOfLen(_)
TextsOfLen(n) ==
    IF n = 0 THEN {<<>>} ELSE {Append(t, c) : t \in TextsOfLen(n - 1), c \in Chars}

Texts == UNION {TextsOfLen(n) : n \in 0..MaxTextLen}

SourceIds == {<<"1">>, <<"1", "-", "1">>}
SourceTexts == {<<>>, <<"a">>, <<"a", ".", " ", "a">>,
                <<"a", ".", " ", "a", ".", " ", "a", "a">>}
SourceRows == {[id |-> id, text |-> text, title |-> "T1"] :
                 id \in SourceIds, text \in SourceTexts}

EmbedTexts == {<<>>, <<"a">>}
EncodeFunctions == [EmbedTexts -> UnitVectors \cup {ZeroVector}]

ChunkerCalls ==
    {[op |-> "call", fn |-> "chunk_text", text |-> text, max_length |-> max_length] :
        text \in Texts, max_length \in 1..MaxChunkLen}
    \cup {[op |-> "call", fn |-> "chunk_dataframe", df |-> df, max_length |-> max_length,
           additional_columns |-> cols] :
            df \in SeqsUpTo(SourceRows, MaxRecs), max_length \in {2, MaxChunkLen},
            cols \in {{}, {"title"}}}
    \cup {[op |-> "call", fn |-> "generate_embedding", text |-> text, enc |-> enc,
           raises |-> raises] :
            text \in EmbedTexts \cup {Null}, enc \in EncodeFunctions, raises \in BOOLEAN}
    \cup {[op |-> "call", fn |-> "generate_embeddings_batch", texts |-> texts,
           enc |-> enc, raises |-> raises] :
            texts \in SeqsUpTo(EmbedTexts, MaxRecs), enc \in EncodeFunctions,
            raises \in BOOLEAN}
    \cup {[op |-> "call", fn |-> "add_embeddings_to_dataframe", texts |-> texts,
           enc |-> enc, raises |-> raises] :
            texts \in SeqsUpTo(EmbedTexts \cup {Null}, MaxRecs), enc \in EncodeFunctions,
            raises \in BOOLEAN}

InitChunk ==
    /\ conn = "none"
    /\ txn = "idle"
    /\ embedding_dimension = 0
    /\ tableDim = 0
    /\ rows = {}
    /\ clock = 0
    /\ retriever = FALSE
    /\ connected = FALSE
    /\ client = NoClient
    /\ last \in ChunkerCalls

chunk_text_call ==
    /\ last.op = "call" /\ last.fn = "chunk_text"
    /\ last' = [op |-> "chunk_text", text |-> last.text, max_length |-> last.max_length,
                outcome |-> "return", ret |-> chunk_text(last.text, last.max_length)]
    /\ UNCHANGED <<conn, txn, embedding_dimension, tableDim, rows, clock, retriever,
                   connected, client>>

chunk_dataframe_call ==
    /\ last.op = "call" /\ last.fn = "chunk_dataframe"
    /\ last' = [op |-> "chunk_dataframe", df |-> last.df, max_length |-> last.max_length,
                additional_columns |-> last.additional_columns, outcome |-> "return",
                ret |-> chunk_dataframe(last.df, last.max_length, last.additional_columns)]
    /\ UNCHANGED <<conn, txn, embedding_dimension, tableDim, rows, clock, retriever,
                   connected, client>>

\* model.encode is not called for an empty or missing text
generate_embedding_call ==
    /\ last.op = "call" /\ last.fn = "generate_embedding"
    /\ LET encodes == ~(last.text = <<>> \/ last.text = Null)
       IN  last' = [op |-> "generate_embedding", text |-> last.text, enc |-> last.enc,
                    outcome |-> IF last.raises /\ encodes THEN "raise" ELSE "return",
                    ret |-> IF last.raises /\ encodes THEN <<>>
                            ELSE generate_embedding(last.text, last.enc)]
    /\ UNCHANGED <<conn, txn, embedding_dimension, tableDim, rows, clock, retriever,
                   connected, client>>

\* model.encode is not called for an empty list
generate_embeddings_batch_call ==
    /\ last.op = "call" /\ last.fn = "generate_embeddings_batch"
    /\ last' = [op |-> "generate_embeddings_batch", texts |-> last.texts, enc |-> last.enc,
                outcome |-> IF last.raises /\ last.texts # <<>> THEN "raise" ELSE "return",
                ret |-> IF last.raises /\ last.texts # <<>> THEN <<>>
                        ELSE generate_embeddings_batch(last.texts, last.enc)]
    /\ UNCHANGED <<conn, txn, embedding_dimension, tableDim, rows, clock, retriever,
                   connected, client>>

add_embeddings_to_dataframe_call ==
    /\ last.op = "call" /\ last.fn = "add_embeddings_to_dataframe"
    /\ last' = [op |-> "add_embeddings_to_dataframe", texts |-> last.texts,
                enc |-> last.enc,
                outcome |-> IF last.raises /\ last.texts # <<>> THEN "raise" ELSE "return",
                ret |-> IF last.raises /\ last.texts # <<>> THEN <<>>
                        ELSE add_embeddings_to_dataframe(last.texts, last.enc)]
    /\ UNCHANGED <<conn, txn, embedding_dimension, tableDim, rows, clock, retriever,
                   connected, client>>

NextChunk ==
    \/ chunk_text_call
    \/ chunk_dataframe_call
    \/ generate_embedding_call
    \/ generate_embeddings_batch_call
    \/ add_embeddings_to_dataframe_call

SpecChunk == InitChunk /\ [][NextChunk]_vars

(***************************************************************************)
(* Properties.                                                             *)
(***************************************************************************)
StoreOps == {"setup_database", "insert_chunks", "semantic_search", "get_statistics",
             "clear_database"}

\* the empty/failure value of a store operation: False, 0, [], {}, False
IsFailureValue(call) ==
    CASE call.op = "setup_database" -> call.ret = FALSE
      [] call.op = "insert_chunks" -> call.ret = 0
      [] call.op = "semantic_search" -> call.ret = <<>>
      [] call.op = "get_statistics" -> call.empty
      [] call.op = "clear_database" -> call.ret = FALSE

ChunkIdsOf(df) == {df[i].chunk_id : i \in 1..Len(df)}

\* the step is a call of insert_chunks (every call advances the clock)
InsertStep == last'.op = "insert_chunks" /\ clock' = clock + 1

\* the last row of df that carries chunk_id id
LastWith(df, id) == df[CHOOSE i \in 1..Len(df) :
                          /\ df[i].chunk_id = id
                          /\ \A j \in 1..Len(df) : df[j].chunk_id = id => j <= i]

(* C1: retrieve_similar_memos never raises and always returns a non-empty  *)
(* string (example blocks or the sentinel), whatever the store state and   *)
(* the outcome of the embedding call and of the store query.               *)
C1_RetrieveNeverRaises ==
    last.op = "retrieve_similar_memos" =>
        /\ last.outcome = "return"
        /\ (last.ret = NoExamples \/ Len(last.ret) > 1)

(* C2: while the store is not connected (never connected, connect failed,  *)
(* or disconnected), each of setup_database, insert_chunks,                *)
(* semantic_search, get_statistics and clear_database returns its          *)
(* empty/failure value, raises nothing and leaves the rows as they were.   *)
C2_NotConnectedNoOp ==
    [][(last'.op \in StoreOps /\ last'.connBefore # "open") =>
          /\ last'.outcome = "return"
          /\ IsFailureValue(last')
          /\ rows' = rows]_vars

(* C3: no two persisted rows share a chunk_id, and an insert_chunks call   *)
(* whose chunks all carry chunk_ids already persisted leaves the row count *)
(* unchanged.                                                              *)
C3_UniqueChunkIds ==
    [][/\ \A x, y \in rows' : x.chunk_id = y.chunk_id => x = y
       /\ (InsertStep /\ ChunkIdsOf(last'.df) \subseteq {x.chunk_id : x \in rows})
             => Cardinality(rows') = Cardinality(rows)]_vars

C3_Witness ==
    /\ last.op = "insert_chunks"
    /\ last.ret = Len(last.df)
    /\ last.ret > 0
    /\ Cardinality(rows) = 2
    /\ \A id \in ChunkIdsOf(last.df) : \E x \in rows : x.chunk_id = id /\ x.created_at < clock

(* C4: when insert_chunks stores a chunk whose chunk_id is already         *)
(* persisted, the row's chunk_text and embedding become the new values;    *)
(* its original_id, chunk_index, title, borrower, loan_type, score,        *)
(* recommendation and created_at, and every other row, stay as they were.  *)
C4_ConflictUpdatesTextAndEmbeddingOnly ==
    [][InsertStep =>
          \A x \in rows :
             \E y \in rows' :
                /\ y.chunk_id = x.chunk_id
                /\ y.original_id = x.original_id
                /\ y.chunk_index = x.chunk_index
                /\ y.title = x.title
                /\ y.borrower = x.borrower
                /\ y.loan_type = x.loan_type
                /\ y.score = x.score
                /\ y.recommendation = x.recommendation
                /\ y.created_at = x.created_at
                /\ IF last'.ret > 0 /\ x.chunk_id \in ChunkIdsOf(last'.df)
                   THEN /\ y.chunk_text = LastWith(last'.df, x.chunk_id).chunk_text
                        /\ y.embedding = LastWith(last'.df, x.chunk_id).embedding
                   ELSE y = x]_vars

C4_Witness ==
    /\ last.op = "insert_chunks"
    /\ last.ret > 0
    /\ \E x \in rows :
          /\ x.created_at < clock
          /\ x.chunk_id \in ChunkIdsOf(last.df)
          /\ x.title # LastWith(last.df, x.chunk_id).title
          /\ x.chunk_text = LastWith(last.df, x.chunk_id).chunk_text
    /\ \E x \in rows : x.chunk_id \notin ChunkIdsOf(last.df)

RECURSIVE RowsOfGoodBatches(_, _, _, _)
RowsOfGoodBatches(records, i, batch_size, blocked) ==
    IF i >= Len(records) THEN 0
    ELSE LET batch == SubSeq(records, i + 1, Min(i + batch_size, Len(records)))
         IN  (IF BatchRaises(batch, blocked) THEN 0 ELSE Len(batch))
             + RowsOfGoodBatches(records, i + batch_size, batch_size, blocked)

NumBatches(df, batch_size) == (Len(df) + batch_size - 1) \div batch_size

(* C5: when a batch of insert_chunks fails with a store error, the         *)
(* remaining batches are still attempted and the value returned is the     *)
(* number of rows of the batches that succeeded.                           *)
C5_PartialBatchFailure ==
    (last.op = "insert_chunks" /\ last.connBefore = "open" /\ last.failed) =>
        /\ last.outcome = "return"
        /\ last.executed = NumBatches(last.df, last.batch_size)
        /\ last.ret = RowsOfGoodBatches(Records(last.df), 0, last.batch_size,
                                        last.txnBefore = "aborted")

(* C6: a semantic_search whose query vector has another dimension than the *)
(* collection's, on a collection that holds rows, ends in an error the     *)
(* caller can tell from "no matches": it never returns the empty list.     *)
C6_DimensionMismatchIsFatal ==
    (/\ last.op = "semantic_search"
     /\ last.connBefore = "open"
     /\ tableDim # 0
     /\ rows # {}
     /\ Len(last.query_embedding) # tableDim) =>
        ~(last.outcome = "return" /\ last.ret = <<>>)

\* Python's a < b on floats: false when either is NaN
FloatLt(a, b) == a # NaN /\ b # NaN /\ a < b

(* C7: the similarity values of the sequence semantic_search returns never *)
(* increase from one element to the next, and each element carries         *)
(* 1 - cosine_distance(query, embedding of the row it was read from).      *)
C7_SimilarityNonIncreasing ==
    last.op = "semantic_search" =>
        /\ \A i \in 1..(Len(last.ret) - 1) :
              ~FloatLt(last.ret[i].similarity, last.ret[i + 1].similarity)
        /\ \A i \in 1..Len(last.ret) :
              \E x \in rows :
                 /\ x.chunk_id = last.ret[i].chunk_id
                 /\ last.ret[i].similarity
                      = OneMinus(CosineDistance(last.query_embedding, x.embedding))

C7_Witness ==
    /\ last.op = "semantic_search"
    /\ Len(last.ret) >= 2
    /\ FloatLt(last.ret[2].similarity, last.ret[1].similarity)
    /\ Cardinality(rows) > Len(last.ret)

(* C8: rows of equal similarity are returned by ascending chunk_id, at the *)
(* limit cut too, so that the result is a function of the store content,   *)
(* the query vector, the limit and the filters.                            *)
C8_TiesByChunkId ==
    (last.op = "semantic_search" /\ ~last.error) =>
        /\ \A i, j \in 1..Len(last.ret) :
              (/\ i < j
               /\ last.ret[i].similarity # NaN
               /\ last.ret[i].similarity = last.ret[j].similarity)
                 => last.ret[i].chunk_id < last.ret[j].chunk_id
        /\ \A x \in rows, i \in 1..Len(last.ret) :
              (/\ WhereClause(x, last.score_filter, last.borrower_filter)
               /\ \A j \in 1..Len(last.ret) : last.ret[j].chunk_id # x.chunk_id
               /\ last.ret[i].similarity # NaN
               /\ ResultRow(x, last.query_embedding).similarity = last.ret[i].similarity)
                 => last.ret[i].chunk_id < x.chunk_id

\* s contains f, letters matching whatever their case
ContainsIgnoreCase(s, f) ==
    /\ s # Null
    /\ \E i \in 1..(Len(s) - Len(f) + 1) : SubSeq(Lower(s), i, i + Len(f) - 1) = Lower(f)

SatisfiesFilters(x, score_filter, borrower_filter) ==
    /\ score_filter # <<>> => x.score = score_filter[1]
    /\ borrower_filter # <<>> => ContainsIgnoreCase(x.borrower, borrower_filter)

(* C9: semantic_search returns exactly min(limit, m) rows, m the number of *)
(* rows whose score equals score_filter and whose borrower contains        *)
(* borrower_filter whatever the case; every returned row satisfies the     *)
(* filters and no satisfying row is left out for one of lower similarity.  *)
C9_FilteredTopK ==
    (last.op = "semantic_search" /\ ~last.error /\ last.limit >= 0) =>
        LET S == {x \in rows : SatisfiesFilters(x, last.score_filter, last.borrower_filter)}
            sim(x) == ResultRow(x, last.query_embedding).similarity
            returned == {last.ret[i].chunk_id : i \in 1..Len(last.ret)}
        IN  /\ Len(last.ret) = Min(last.limit, Cardinality(S))
            /\ returned \subseteq {x.chunk_id : x \in S}
            /\ \A x \in S, i \in 1..Len(last.ret) :
                  x.chunk_id \notin returned => ~FloatLt(last.ret[i].similarity, sim(x))

(* C10: semantic_search on a connected store whose collection is empty     *)
(* returns the empty sequence and raises nothing, whatever the query       *)
(* vector, the limit and the filters.                                      *)
C10_EmptyCollectionSearch ==
    (/\ last.op = "semantic_search"
     /\ last.connBefore = "open"
     /\ tableDim # 0
     /\ rows = {}) =>
        (last.outcome = "return" /\ last.ret = <<>>)

C10_Witness ==
    /\ last.op = "semantic_search"
    /\ last.connBefore = "open"
    /\ rows = {}
    /\ last.score_filter # <<>>
    /\ last.borrower_filter # <<>>
    /\ ~last.error
    /\ last.ret = <<>>

\* the candidates whose similarity is at least t, in the order given
Survivors(candidates, t) ==
    SelectSeq(candidates, LAMBDA c : c.similarity # NaN /\ c.similarity >= t)

(* C11: a retrieve_context that returns on a connected retriever issued    *)
(* one store query, for 2 * limit candidates, and returns the first limit  *)
(* of the candidates whose similarity is at least the threshold, in the    *)
(* store's order: all k of them when k < limit, with no second query.      *)
C11_OversampleFilterTruncate ==
    (last.op = "retrieve_context" /\ last.connectedBefore /\ last.outcome = "return") =>
        LET surv == Survivors(last.candidates, last.similarity_threshold)
        IN  /\ last.asked = <<2 * last.limit>>
            /\ last.searches = 1
            /\ last.limit >= 0 => Len(last.candidates) <= 2 * last.limit
            /\ last.limit >= 0 => last.ret = SubSeq(surv, 1, Min(last.limit, Len(surv)))
            /\ last.limit < 0 => last.ret = <<>>

C11_Witness ==
    /\ last.op = "retrieve_context"
    /\ last.connectedBefore
    /\ last.outcome = "return"
    /\ Len(last.ret) = 1
    /\ last.limit = 2
    /\ Len(last.candidates) = 3
    /\ last.similarity_threshold = 90

(* C12: every element retrieve_context returns has similarity >= the       *)
(* threshold of the call, and it returns at most limit elements.           *)
C12_ThresholdAndLimit ==
    (last.op = "retrieve_context" /\ last.outcome = "return") =>
        /\ \A i \in 1..Len(last.ret) :
              /\ last.ret[i].similarity # NaN
              /\ last.ret[i].similarity >= last.similarity_threshold
        /\ Len(last.ret) <= (IF last.limit >= 0 THEN last.limit ELSE 0)

C12_Witness ==
    /\ last.op = "retrieve_context"
    /\ last.outcome = "return"
    /\ last.limit = 1
    /\ Len(last.ret) = 1
    /\ Len(last.candidates) = 2
    /\ last.candidates[2].similarity >= last.similarity_threshold
    /\ Cardinality(rows) = 3
    /\ last.query = "q"

DscrFamily == {"strong debt service coverage", "adequate debt service coverage",
               "weak debt service coverage"}
CurrentFamily == {"strong liquidity", "adequate liquidity", "liquidity concerns"}
LeverageFamily == {"low leverage", "moderate leverage", "high leverage"}

\* the phrases of one family in a query, as positions
PhrasesIn(query, family) == {i \in 1..Len(query) : query[i] \in family}

DscrBucket(v) ==
    IF v >= DscrStrong THEN "strong debt service coverage"
    ELSE IF v >= DscrAdequate THEN "adequate debt service coverage"
    ELSE "weak debt service coverage"

CurrentBucket(v) ==
    IF v >= CurrentStrong THEN "strong liquidity"
    ELSE IF v >= CurrentAdequate THEN "adequate liquidity"
    ELSE "liquidity concerns"

LeverageBucket(v) ==
    IF v <= LeverageLow THEN "low leverage"
    ELSE IF v <= LeverageModerate THEN "moderate leverage"
    ELSE "high leverage"

\* the query holds exactly one phrase of the family, the one of the value's bucket
OnePhrase(query, family, bucket) ==
    /\ Cardinality(PhrasesIn(query, family)) = 1
    /\ \A i \in PhrasesIn(query, family) : query[i] = bucket

(* C13: for every ratio value supplied to retrieve_similar_memos the query *)
(* holds exactly one phrase for that ratio, the one of the bucket the      *)
(* inclusive comparisons name (DSCR >= 1.5 / >= 1.25 / else; current ratio *)
(* >= 2.0 / >= 1.5 / else; leverage <= 0.3 / <= 0.5 / else), and the query *)
(* holds the industry descriptor.                                          *)
C13_BucketPhrases ==
    (last.op = "retrieve_similar_memos" /\ last.outcome = "return") =>
        /\ last.ratios.dscr # <<>> =>
              OnePhrase(last.query, DscrFamily, DscrBucket(last.ratios.dscr[1]))
        /\ last.ratios.current_ratio # <<>> =>
              OnePhrase(last.query, CurrentFamily, CurrentBucket(last.ratios.current_ratio[1]))
        /\ last.ratios.leverage_ratio # <<>> =>
              OnePhrase(last.query, LeverageFamily,
                        LeverageBucket(last.ratios.leverage_ratio[1]))
        /\ last.borrower_info.industry # <<>> =>
              \E i \in 1..Len(last.query) : last.query[i] = last.borrower_info.industry[1]

(* C14: the query of retrieve_similar_memos leaves out the phrase of a     *)
(* ratio if and only if that ratio is missing from the input; a ratio      *)
(* present with any numeric value, 0 included, has a phrase.               *)
C14_OmittedIffMissing ==
    (last.op = "retrieve_similar_memos" /\ last.outcome = "return") =>
        /\ (PhrasesIn(last.query, DscrFamily) = {}) <=> (last.ratios.dscr = <<>>)
        /\ (PhrasesIn(last.query, CurrentFamily) = {}) <=> (last.ratios.current_ratio = <<>>)
        /\ (PhrasesIn(last.query, LeverageFamily) = {}) <=> (last.ratios.leverage_ratio = <<>>)

(* C15: chunk_text returns the empty sequence for the empty text and       *)
(* exactly <<text>>, the text unmodified, for every non-empty text of      *)
(* length <= max_length.                                                   *)
C15_ShortTextIsOneChunk ==
    last.op = "chunk_text" =>
        /\ last.text = <<>> => last.ret = <<>>
        /\ (last.text # <<>> /\ Len(last.text) <= last.max_length) => last.ret = <<last.text>>

C15_Witness ==
    /\ last.op = "chunk_text"
    /\ last.text = <<" ", "a", ".", " ">>
    /\ Len(last.text) = last.max_length
    /\ last.ret = <<last.text>>

\* a sentence without the whitespace around it and the periods that end it
RECURSIVE SentenceText(_)
SentenceText(s) ==
    IF Strip(s) # <<>> /\ Strip(s)[Len(Strip(s))] = "."
    THEN SentenceText(SubSeq(Strip(s), 1, Len(Strip(s)) - 1))
    ELSE Strip(s)

\* the sentences of a text: what lies between ". " separators
SentencesOf(text) == [i \in 1..Len(Split(text)) |-> SentenceText(Split(text)[i])]

RECURSIVE SentencesOfAll(_)
SentencesOfAll(chunks) ==
    IF chunks = <<>> THEN <<>> ELSE SentencesOf(Head(chunks)) \o SentencesOfAll(Tail(chunks))

(* C16: the sentences read from the chunks of chunk_text, in order, are    *)
(* the sentences of the text, in order: none dropped, duplicated or added. *)
(* A sentence is what lies between ". " separators, without the whitespace *)
(* around it and the periods that end it.                                  *)
C16_SentencesPreserved ==
    (last.op = "chunk_text" /\ last.text # <<>>) =>
        SentencesOfAll(last.ret) = SentencesOf(last.text)

C16_Witness ==
    /\ last.op = "chunk_text"
    /\ last.text = <<"a", ".", " ", " ", "a", ".", " ">>
    /\ Len(last.ret) > 1

\* the sentences as the loop sees them: split, the period added back
LoopSentences(text) == [i \in 1..Len(Split(text)) |-> AddPeriod(Split(text)[i])]

\* with a flush after each sentence of `cuts`: where the buffer of sentence i began
BufferStart(cuts, i) ==
    LET before == {c \in cuts : c < i}
    IN  IF before = {} THEN 1 ELSE 1 + CHOOSE c \in before : \A e \in before : e <= c

\* sentences S[a..b], each followed by a space
RECURSIVE BufferText(_, _, _)
BufferText(S, a, b) == IF a > b THEN <<>> ELSE S[a] \o <<" ">> \o BufferText(S, a + 1, b)

\* the chunks when the buffer is flushed after each sentence of `ends`
ChunksOfCuts(S, cuts) ==
    LET ends == cuts \cup {Len(S)}
        EndOf(j) == CHOOSE e \in ends : Cardinality({x \in ends : x <= e}) = j
    IN  [j \in 1..Cardinality(ends) |->
            Strip(BufferText(S, BufferStart(cuts, EndOf(j)), EndOf(j)))]

(* C17: for a text longer than max_length the chunks are the greedy        *)
(* grouping of its sentences: sentence i + 1 joins the buffer of sentence  *)
(* i exactly when buffer length + sentence length < max_length, otherwise  *)
(* the buffer is flushed and the sentence starts the next one; a sentence  *)
(* longer than max_length is a chunk of its own, no sentence is split, and *)
(* no chunk is empty.                                                      *)
C17_GreedyGrouping ==
    last.op = "chunk_text" =>
        /\ \A j \in 1..Len(last.ret) : last.ret[j] # <<>>
        /\ Len(last.text) > last.max_length =>
              LET S == LoopSentences(last.text)
                  n == Len(S)
              IN  \E cuts \in SUBSET (1..(n - 1)) :
                    /\ \A i \in 1..(n - 1) :
                          (i \notin cuts) <=>
                             (Len(BufferText(S, BufferStart(cuts, i), i)) + Len(S[i + 1])
                                < last.max_length)
                    /\ last.ret = ChunksOfCuts(S, cuts)
                    /\ \A i \in 1..n :
                          Len(Split(last.text)[i]) > last.max_length =>
                             /\ i = 1 \/ (i - 1) \in cuts
                             /\ i = n \/ i \in cuts

C17_Witness ==
    /\ last.op = "chunk_text"
    /\ last.text = <<"a", ".", " ", "a", ".", " ", "a">>
    /\ last.max_length = 6
    /\ last.ret = <<<<"a", ".", " ", "a", ".">>, <<"a", ".">>>>

\* the records of one source, in the order produced
RecordsOfSource(records, id) == SelectSeq(records, LAMBDA r : r.original_id = id)

(* C18: for a table whose source ids are pairwise distinct, the records of *)
(* chunk_dataframe have pairwise distinct chunk_ids, each fixed by its     *)
(* (original_id, chunk_index); the records of a source carry chunk_index   *)
(* 1..n and the chunks of its text in order, and a source with empty text  *)
(* has no record.                                                          *)
C18_ChunkIdsDistinct ==
    (/\ last.op = "chunk_dataframe"
     /\ \A i, j \in 1..Len(last.df) : i # j => last.df[i].id # last.df[j].id) =>
        /\ \A i, j \in 1..Len(last.ret) :
              /\ i # j => last.ret[i].chunk_id # last.ret[j].chunk_id
              /\ (/\ last.ret[i].original_id = last.ret[j].original_id
                  /\ last.ret[i].chunk_index = last.ret[j].chunk_index)
                    => last.ret[i].chunk_id = last.ret[j].chunk_id
        /\ \A i \in 1..Len(last.ret) :
              last.ret[i].chunk_id
                 = last.ret[i].original_id \o <<"-">> \o Str(last.ret[i].chunk_index)
        /\ \A k \in 1..Len(last.df) :
              LET mine == RecordsOfSource(last.ret, last.df[k].id)
                  chunks == chunk_text(last.df[k].text, last.max_length)
              IN  /\ Len(mine) = Len(chunks)
                  /\ \A m \in 1..Len(mine) :
                        mine[m].chunk_index = m /\ mine[m].chunk_text = chunks[m]
                  /\ last.df[k].text = <<>> => mine = <<>>

C18_Witness ==
    /\ last.op = "chunk_dataframe"
    /\ Len(last.df) = 2
    /\ last.df[1].id = <<"1">>
    /\ last.df[2].id = <<"1", "-", "1">>
    /\ last.df[1].text = <<>>
    /\ Len(last.ret) = 3
    /\ last.ret[3].chunk_id = <<"1", "-", "1", "-", "3">>

(* C19: generate_embeddings_batch(texts), and add_embeddings_to_dataframe  *)
(* on the ingestion path, give one vector per text, the i-th equal to      *)
(* generate_embedding(texts[i]); an empty text maps to the zero vector in  *)
(* the batch form as in the single form.                                   *)
C19_BatchEqualsElementwise ==
    (/\ last.op \in {"generate_embeddings_batch", "add_embeddings_to_dataframe"}
     /\ last.outcome = "return") =>
        /\ Len(last.ret) = Len(last.texts)
        /\ \A i \in 1..Len(last.texts) :
              last.ret[i] = generate_embedding(last.texts[i], last.enc)

(* C20: format_context_for_llm returns the sentinel exactly when the list  *)
(* of results is empty; for n >= 1 results rendered with their metadata it *)
(* returns n blocks headed Example 1 .. Example n in the order of the      *)
(* list, each holding its result's memo id, title, borrower type, loan     *)
(* type, risk score, similarity to 3 decimals and chunk text, followed by  *)
(* a recommendation line exactly when the recommendation is not empty.     *)
ExampleHeads(lines) == {p \in 1..Len(lines) : lines[p][1] = "--- Example"}

HasLine(lines, p, label) == p <= Len(lines) /\ lines[p][1] = label

C20_SentinelOrNumberedBlocks ==
    (last.op = "format_context_for_llm") =>
        LET chunks == last.retrieved_chunks
            lines == last.ret
            heads == ExampleHeads(lines)
        IN  /\ (lines = NoExamples) <=> (chunks = <<>>)
            /\ (chunks # <<>> /\ last.include_metadata) =>
                  /\ Cardinality(heads) = Len(chunks)
                  /\ \A i \in 1..Len(chunks) : \E p \in heads :
                        /\ lines[p][2] = i
                        /\ Cardinality({q \in heads : q < p}) = i - 1
                        /\ HasLine(lines, p + 7, "Risk Analysis")
                        /\ lines[p + 1] = <<"Memo ID", chunks[i].original_id>>
                        /\ lines[p + 2] = <<"Title", chunks[i].title>>
                        /\ lines[p + 3] = <<"Borrower Type", chunks[i].borrower>>
                        /\ lines[p + 4] = <<"Loan Type", chunks[i].loan_type>>
                        /\ lines[p + 5] = <<"Risk Score", chunks[i].score>>
                        /\ lines[p + 6] = <<"Similarity", Format3f(chunks[i].similarity)>>
                        /\ lines[p + 7] = <<"Risk Analysis", chunks[i].chunk_text>>
                        /\ HasLine(lines, p + 8, "Recommendation")
                              <=> chunks[i].recommendation # ""
                        /\ HasLine(lines, p + 8, "Recommendation")
                              => lines[p + 8][2] = chunks[i].recommendation
                        /\ ~HasLine(lines, p + 8, "Recommendation")
                              => (p + 8 > Len(lines) \/ p + 8 \in heads)

C20_Witness ==
    /\ last.op = "format_context_for_llm"
    /\ last.include_metadata
    /\ Len(last.retrieved_chunks) = 2
    /\ last.retrieved_chunks[1].recommendation = "Approve"
    /\ last.retrieved_chunks[2].recommendation = ""
    /\ last.retrieved_chunks[1].similarity = NaN
    /\ last.retrieved_chunks[2].similarity = 60
    /\ Len(last.ret) = 17

(* C21: when the store connection failed at the construction of the        *)
(* RAGRetriever, every later retrieve_similar_memos call returns the       *)
(* sentinel without raising and makes no embedding call and no store       *)
(* query, and every later retrieve_context call returns the empty list.    *)
RetrieveOps == {"retrieve_similar_memos", "retrieve_context"}

C21_FailedConstructionDegrades ==
    (last.op \in RetrieveOps /\ ~last.connectedBefore) =>
        /\ last.outcome = "return"
        /\ last.calls = <<>>
        /\ last.embeds = 0 /\ last.searches = 0
        /\ last.op = "retrieve_similar_memos" => last.ret = NoExamples
        /\ last.op = "retrieve_context" => last.ret = <<>>

C21_Witness ==
    /\ last.op = "retrieve_similar_memos"
    /\ ~last.connectedBefore
    /\ conn = "none"
    /\ rows # {}
    /\ last.query = <<"", "strong debt service coverage", "strong liquidity", "low leverage">>
    /\ last.ret = NoExamples

(* C22: each retrieve_similar_memos / retrieve_context request makes at    *)
(* most one embedding call and at most one store query, the embedding call *)
(* before the store query; no request queries the store a second time.     *)
CallsOf(calls, name) == {i \in 1..Len(calls) : calls[i] = name}

C22_OneEmbeddingThenOneQuery ==
    last.op \in RetrieveOps =>
        /\ Cardinality(CallsOf(last.calls, "encode")) <= 1
        /\ Cardinality(CallsOf(last.calls, "semantic_search")) <= 1
        /\ \A i \in CallsOf(last.calls, "encode"), j \in CallsOf(last.calls, "semantic_search") :
              i < j
        /\ \A i \in 1..Len(last.calls) : last.calls[i] \in {"encode", "semantic_search"}
        /\ last.embeds = Cardinality(CallsOf(last.calls, "encode"))
        /\ last.searches = Cardinality(CallsOf(last.calls, "semantic_search"))

C22_Witness ==
    /\ last.op = "retrieve_context"
    /\ last.connectedBefore
    /\ last.calls = <<"encode", "semantic_search">>
    /\ last.similarity_threshold = 90
    /\ last.candidates # <<>>
    /\ last.ret = <<>>

(* C30: get_knowledge_base_stats reports status 'connected' only while the *)
(* store connection is open, and 'disconnected' after close() has been     *)
(* called.                                                                 *)
C30_StatusTracksConnection ==
    last.op = "get_knowledge_base_stats" =>
        (last.status = "connected" <=> last.connBefore = "open")

(* C23: every persisted row has a risk score that is null or an integer in *)
(* 1..5; a chunk ingested without a risk score is stored with a null       *)
(* score, not with 0.                                                      *)
ScoreIsNull(score) == score = 0 - 1

C23_ScoreNullOrInRange ==
    \A r \in rows : ScoreIsNull(r.score) \/ r.score \in 1..5

(* C24: after any sequence of insert_chunks calls, re-ingestion of an      *)
(* existing chunk_id with a text of another length included, every         *)
(* persisted row's chunk_length equals the length of its chunk_text.       *)
C24_LengthMatchesText ==
    \A r \in rows : r.chunk_length = Len(r.chunk_text)

(* C26: insert_chunks is all-or-nothing with respect to store errors: if   *)
(* any batch raises, no row of any batch of the call is persisted or       *)
(* modified and the call returns 0; if none raises, every row is committed *)
(* and the call returns the number of input records.                       *)
C26_AllOrNothing ==
    [][(InsertStep /\ last'.connBefore = "open" /\ last'.outcome = "return") =>
          IF last'.failed
          THEN rows' = rows /\ last'.ret = 0 /\ txn' = "idle"
          ELSE /\ last'.ret = Len(last'.df)
               /\ last'.executed = NumBatches(last'.df, last'.batch_size)
               /\ \A id \in ChunkIdsOf(last'.df) : \E r \in rows' :
                     /\ r.chunk_id = id
                     /\ r.chunk_text = LastWith(last'.df, id).chunk_text
               /\ \A r \in rows : \E x \in rows' : x.chunk_id = r.chunk_id
               /\ txn' = "idle"]_vars

C26_Witness ==
    /\ last.op = "insert_chunks"
    /\ last.failed
    /\ last.batch_size = 1
    /\ last.executed = 2
    /\ last.ret = 0
    /\ rows # {}
    /\ \E r \in rows : r.chunk_id = last.df[1].chunk_id /\ r.chunk_text # last.df[1].chunk_text

(* C27: for a text longer than max_length every chunk of chunk_text that   *)
(* holds more than one sentence is strictly shorter than max_length; only  *)
(* a chunk made of a single sentence can have length >= max_length.        *)
RECURSIVE SentenceCount(_)
SentenceCount(chunks) ==
    IF chunks = <<>> THEN 0 ELSE Len(Split(Head(chunks))) + SentenceCount(Tail(chunks))

C27_MultiSentenceChunksFit ==
    (last.op = "chunk_text" /\ Len(last.text) > last.max_length) =>
        /\ SentenceCount(last.ret) = Len(Split(last.text))
        /\ \A j \in 1..Len(last.ret) :
              Len(Split(last.ret[j])) > 1 => Len(last.ret[j]) < last.max_length

C27_Witness ==
    /\ last.op = "chunk_text"
    /\ last.text = <<".", " ", ".", " ", "a", "a", "a">>
    /\ last.max_length = 4
    /\ last.ret = <<<<".", " ", ".">>, <<"a", "a", "a", ".">>>>

(* C28: a semantic_search that fails with a store error leaves the store   *)
(* usable: the next semantic_search with a valid query on the same         *)
(* connected VectorDatabase returns the matching rows, not an empty result *)
(* caused by the earlier failure.                                          *)
ValidSearch(call) ==
    /\ call.op = "semantic_search"
    /\ call.connBefore = "open"
    /\ Len(call.query_embedding) = tableDim
    /\ call.limit >= 0

C28_FailedSearchLeavesStoreUsable ==
    [][(last.op = "semantic_search" /\ last.error /\ ValidSearch(last')) =>
          LET M == {r \in rows : WhereClause(r, last'.score_filter, last'.borrower_filter)}
          IN  M # {} =>
                /\ ~last'.error
                /\ Len(last'.ret) = Min(last'.limit, Cardinality(M))
                /\ \A i \in 1..Len(last'.ret) :
                      \E r \in M : r.chunk_id = last'.ret[i].chunk_id]_vars

(* C29: load_knowledge_base_from_csv calls connect, setup_database,        *)
(* insert_chunks, get_statistics, disconnect in that order; it returns     *)
(* True only if connect and setup_database succeeded and insert_chunks     *)
(* returned a count > 0; on every return path after a successful connect   *)
(* disconnect has been called before it returns.                           *)
LoaderOrder == <<"connect", "setup_database", "insert_chunks", "get_statistics",
                 "disconnect">>

\* the position of a call in LoaderOrder
OrderOf(name) == CHOOSE k \in 1..Len(LoaderOrder) : LoaderOrder[k] = name

C29_LoaderOrderAndDisconnect ==
    (last.op = "load_knowledge_base_from_csv" /\ last.outcome = "return") =>
        /\ last.calls # <<>> /\ last.calls[1] = "connect"
        /\ \A i \in 1..Len(last.calls) : last.calls[i] \in Range(LoaderOrder)
        /\ \A i, j \in 1..Len(last.calls) :
              i < j => OrderOf(last.calls[i]) < OrderOf(last.calls[j])
        /\ last.ret =>
              /\ last.connect_ret /\ last.setup_ret /\ last.inserted > 0
              /\ last.calls = LoaderOrder
        /\ last.connect_ret =>
              /\ last.calls[Len(last.calls)] = "disconnect"
              /\ last.dbconn = "closed"

C29_Witness ==
    /\ last.op = "load_knowledge_base_from_csv"
    /\ last.outcome = "return"
    /\ ~last.ret
    /\ last.setup_ret
    /\ last.df # <<>>
    /\ last.calls = <<"connect", "setup_database", "insert_chunks", "disconnect">>
    /\ rows # {}

(* C25: a retrieval failure never fails memo generation: an exception      *)
(* raised by the retriever is absorbed and the prompt is built with no     *)
(* retrieved context; the retriever is consulted only when use_rag and     *)
(* rag_enabled both hold; rag_enabled holds only if a retriever object     *)
(* exists and its store connection succeeded at construction.              *)
C25_RetrievalNeverFailsGeneration ==
    /\ client.rag_enabled => (client.rag_retriever /\ retriever /\ connected)
    /\ last.op = "generate_credit_memo" =>
          /\ last.outcome = "return"
          /\ last.memo \in {"llm", "mock"}
          /\ last.retrieval_raised =>
                (last.consulted /\ last.prompt_built /\ last.rag_context = <<>>)
          /\ last.consulted => (last.use_rag /\ last.rag_enabled)
          /\ ~last.consulted => (last.calls = <<>> /\ last.rag_context = <<>>)

C25_Witness ==
    /\ last.op = "generate_credit_memo"
    /\ last.consulted
    /\ last.retrieval_raised
    /\ last.outcome = "return"
    /\ last.prompt_built
    /\ last.memo = "llm"
    /\ rows # {}

====
